---- MODULE Spec2Model ----
(***************************************************************************)
(* Chronicle storage engine: the SQLite-backed event store                 *)
(* (internal/storage): events, content, the FTS shadow index, the cached   *)
(* exclusion rules, retention pruning and purge.                           *)
(*                                                                         *)
(* Strings are TLA+ strings; Len, SubSeq and \o act on them as on          *)
(* sequences of characters, so URL parsing, pattern matching and byte      *)
(* counting are computed character by character.                           *)
(***************************************************************************)
EXTENDS Bags, FiniteSets, Integers, Sequences, TLC

(***************************************************************************)
(* Bounds of the model.                                                    *)
(***************************************************************************)
\* size of the identifier space drawn by generateID (2^32 in the program)
NumIDs == 2
\* clock ticks per stored second (10^9 ns in the program)
TicksPerSecond == 2
\* last clock tick of the modelled time line
MaxTick == 2

(***************************************************************************)
(* Character-level helpers (Go's strings package).                         *)
(***************************************************************************)
Char(s, i) == SubSeq(s, i, i)

Letters ==
  {"a","b","c","d","e","f","g","h","i","j","k","l","m","n","o","p","q","r",
   "s","t","u","v","w","x","y","z",
   "A","B","C","D","E","F","G","H","I","J","K","L","M","N","O","P","Q","R",
   "S","T","U","V","W","X","Y","Z"}

Digits == {"0","1","2","3","4","5","6","7","8","9"}

HexDigits == Digits \cup {"a","b","c","d","e","f","A","B","C","D","E","F"}

\* strings.Index for a one-character needle, searching from position i;
\* 0 when absent
RECURSIVE IndexFrom(_, _, _)
IndexFrom(s, c, i) ==
  IF i > Len(s) THEN 0
  ELSE IF Char(s, i) = c THEN i
  ELSE IndexFrom(s, c, i + 1)

Index(s, c) == IndexFrom(s, c, 1)

\* strings.LastIndex for a one-character needle; 0 when absent
RECURSIVE LastIndexFrom(_, _, _)
LastIndexFrom(s, c, i) ==
  IF i < 1 THEN 0
  ELSE IF Char(s, i) = c THEN i
  ELSE LastIndexFrom(s, c, i - 1)

LastIndex(s, c) == LastIndexFrom(s, c, Len(s))

HasPrefix(s, p) == Len(p) <= Len(s) /\ SubSeq(s, 1, Len(p)) = p

HasSuffix(s, p) ==
  Len(p) <= Len(s) /\ SubSeq(s, Len(s) - Len(p) + 1, Len(s)) = p

\* s[i:] with a 1-based first position
From(s, i) == SubSeq(s, i, Len(s))

\* s[:i) : the characters before 1-based position i
Before(s, i) == SubSeq(s, 1, i - 1)

RECURSIVE AllIn(_, _, _)
AllIn(s, set, i) ==
  IF i > Len(s) THEN TRUE
  ELSE Char(s, i) \in set /\ AllIn(s, set, i + 1)

(***************************************************************************)
(* net/url as used by extractDomain: url.Parse followed by Hostname().     *)
(* A parse result is [err, host]; host keeps the port until Hostname.      *)
(***************************************************************************)
\* url.getScheme: [scheme, rest, err]
RECURSIVE getSchemeFrom(_, _)
getSchemeFrom(rawURL, i) ==
  IF i > Len(rawURL) THEN [scheme |-> "", rest |-> rawURL, err |-> FALSE]
  ELSE LET c == Char(rawURL, i) IN
    IF c \in Letters THEN getSchemeFrom(rawURL, i + 1)
    ELSE IF c \in Digits \cup {"+", "-", "."} THEN
      IF i = 1 THEN [scheme |-> "", rest |-> rawURL, err |-> FALSE]
      ELSE getSchemeFrom(rawURL, i + 1)
    ELSE IF c = ":" THEN
      IF i = 1 THEN [scheme |-> "", rest |-> "", err |-> TRUE]
      ELSE [scheme |-> Before(rawURL, i), rest |-> From(rawURL, i + 1),
            err |-> FALSE]
    ELSE [scheme |-> "", rest |-> rawURL, err |-> FALSE]

\* url.unescape in path mode fails on a '%' not followed by two hex digits
RECURSIVE validEscapes(_, _)
validEscapes(s, i) ==
  IF i > Len(s) THEN TRUE
  ELSE IF Char(s, i) = "%" THEN
    /\ i + 2 <= Len(s)
    /\ Char(s, i + 1) \in HexDigits
    /\ Char(s, i + 2) \in HexDigits
    /\ validEscapes(s, i + 3)
  ELSE validEscapes(s, i + 1)

\* url.validOptionalPort: empty, or ':' followed by digits only
validOptionalPort(port) ==
  \/ port = ""
  \/ Char(port, 1) = ":" /\ AllIn(port, Digits, 2)

\* url.parseAuthority + parseHost: drop the userinfo, validate the port
parseAuthority(authority) ==
  LET at   == LastIndex(authority, "@")
      host == IF at = 0 THEN authority ELSE From(authority, at + 1)
      colon == LastIndex(host, ":")
  IN  IF colon # 0 /\ ~validOptionalPort(From(host, colon))
      THEN [err |-> TRUE, host |-> ""]
      ELSE [err |-> ~validEscapes(host, 1), host |-> host]

\* url.Parse (viaRequest = false)
urlParse(rawURL) ==
  LET hash  == Index(rawURL, "#")
      u     == IF hash = 0 THEN rawURL ELSE Before(rawURL, hash)
      sch   == getSchemeFrom(u, 1)
      q     == Index(sch.rest, "?")
      rest  == IF q = 0 THEN sch.rest ELSE Before(sch.rest, q)
  IN  IF sch.err THEN [err |-> TRUE, host |-> ""]
      ELSE IF ~HasPrefix(rest, "/") /\ sch.scheme # ""
        THEN [err |-> FALSE, host |-> ""]            \* opaque URL
      ELSE IF ~HasPrefix(rest, "/") /\ sch.scheme = ""
              /\ Index(rest, ":") # 0
              /\ (Index(rest, "/") = 0 \/ Index(rest, ":") < Index(rest, "/"))
        THEN [err |-> TRUE, host |-> ""]   \* colon in the first path segment
      ELSE IF HasPrefix(rest, "//")
              /\ (sch.scheme # "" \/ ~HasPrefix(rest, "///"))
        THEN LET after == From(rest, 3)
                 slash == Index(after, "/")
                 authority == IF slash = 0 THEN after ELSE Before(after, slash)
                 path  == IF slash = 0 THEN "" ELSE From(after, slash)
                 a     == parseAuthority(authority)
             IN  IF a.err \/ ~validEscapes(path, 1)
                 THEN [err |-> TRUE, host |-> ""]
                 ELSE [err |-> FALSE, host |-> a.host]
      ELSE [err |-> ~validEscapes(rest, 1), host |-> ""]

\* url.ParseRequestURI (viaRequest = true): no fragment is cut off, a URL
\* without a scheme must start with "/" and has no authority
urlParseRequestURI(rawURL) ==
  LET sch   == getSchemeFrom(rawURL, 1)
      q     == Index(sch.rest, "?")
      rest  == IF q = 0 THEN sch.rest ELSE Before(sch.rest, q)
  IN  IF rawURL = "" \/ sch.err THEN [err |-> TRUE, host |-> ""]
      ELSE IF ~HasPrefix(rest, "/") /\ sch.scheme # ""
        THEN [err |-> FALSE, host |-> ""]            \* opaque URL
      ELSE IF ~HasPrefix(rest, "/") THEN [err |-> TRUE, host |-> ""]
      ELSE IF HasPrefix(rest, "//") /\ sch.scheme # ""
        THEN LET after == From(rest, 3)
                 slash == Index(after, "/")
                 authority == IF slash = 0 THEN after ELSE Before(after, slash)
                 path  == IF slash = 0 THEN "" ELSE From(after, slash)
                 a     == parseAuthority(authority)
             IN  IF a.err \/ ~validEscapes(path, 1)
                 THEN [err |-> TRUE, host |-> ""]
                 ELSE [err |-> FALSE, host |-> a.host]
      ELSE [err |-> ~validEscapes(rest, 1), host |-> ""]

\* URL.Hostname: the host without a valid port
Hostname(host) ==
  LET colon == LastIndex(host, ":")
  IN  IF colon # 0 /\ validOptionalPort(From(host, colon))
      THEN Before(host, colon) ELSE host

\* url.Parse, then URL.Hostname; "" when the URL does not parse
parseHostname(rawURL) ==
  LET u == urlParse(rawURL) IN IF u.err THEN "" ELSE Hostname(u.host)

\* the URLs the model's callers use
KnownURLs ==
  { "https://chase.com/accounts", "https://site.xxx/page",
    "https://user@chase.com:443/", "https://example.com/article",
    "http://a.com:8080/chase.com" }

\* extractDomain with the port kept in the domain
extractDomainKeepsPort(rawURL) ==
  LET u == urlParse(rawURL) IN IF u.err THEN "" ELSE u.host

\* extractDomain pulls the hostname from a URL string
extractDomain(rawURL) == parseHostname(rawURL)

(***************************************************************************)
(* regexp as used by the exclusion rules.  The pattern language is         *)
(* restricted to the form the stored rules use, ".*" LITERAL "$", where    *)
(* LITERAL may escape characters with a backslash; every other pattern is  *)
(* treated as one that does not compile.                                   *)
(***************************************************************************)
RECURSIVE unescapeFrom(_, _)
unescapeFrom(p, i) ==
  IF i > Len(p) THEN ""
  ELSE IF Char(p, i) = "\\" /\ i < Len(p)
    THEN Char(p, i + 1) \o unescapeFrom(p, i + 2)
  ELSE Char(p, i) \o unescapeFrom(p, i + 1)

\* regexp.Compile: [ok, suffix]
regexpCompile(pattern) ==
  IF HasPrefix(pattern, ".*") /\ HasSuffix(pattern, "$") /\ Len(pattern) >= 3
  THEN [ok |-> TRUE,
        suffix |-> unescapeFrom(SubSeq(pattern, 3, Len(pattern) - 1), 1)]
  ELSE [ok |-> FALSE, suffix |-> ""]

\* MatchString with the literal anchored at both ends
MatchStringExact(re, s) == s = re.suffix

\* Regexp.MatchString for a compiled ".*" LITERAL "$"
MatchString(re, s) == HasSuffix(s, re.suffix)

(***************************************************************************)
(* Schema Manager: the rows migrateV001 seeds.                             *)
(***************************************************************************)
Rule(t, v) == [rule_type |-> t, rule_value |-> v]

\* seedDefaultExclusions: the curated denylist, in source order
defaults ==
  << Rule("domain", "chase.com"), Rule("domain", "bankofamerica.com"),
     Rule("domain", "wellsfargo.com"), Rule("domain", "citi.com"),
     Rule("domain", "capitalone.com"), Rule("domain", "usbank.com"),
     Rule("domain", "schwab.com"), Rule("domain", "fidelity.com"),
     Rule("domain", "vanguard.com"), Rule("domain", "paypal.com"),
     Rule("domain", "venmo.com"), Rule("domain", "1password.com"),
     Rule("domain", "bitwarden.com"), Rule("domain", "lastpass.com"),
     Rule("domain", "dashlane.com"), Rule("domain", "accounts.google.com"),
     Rule("domain", "login.microsoftonline.com"), Rule("domain", "auth0.com"),
     Rule("domain", "okta.com"), Rule("domain", "mychart.com"),
     Rule("domain", "patient.myuhc.com"), Rule("domain", "irs.gov"),
     Rule("domain", "turbotax.intuit.com"),
     Rule("regex", ".*\\.xxx$"), Rule("regex", ".*pornhub\\.com$") >>

\* exclusions.id INTEGER PRIMARY KEY AUTOINCREMENT
nextRuleID(table) ==
  IF table = {} THEN 1
  ELSE (CHOOSE i \in {r.id : r \in table} : \A r \in table : r.id <= i) + 1

\* a stored rule: the row of the exclusions table
RuleRow(table, rule, isDefault) ==
  [id |-> nextRuleID(table), rule_type |-> rule.rule_type,
   rule_value |-> rule.rule_value, is_default |-> isDefault]

\* UNIQUE(rule_type, rule_value)
ruleExists(table, rule) ==
  \E r \in table : /\ r.rule_type = rule.rule_type
                   /\ r.rule_value = rule.rule_value

\* INSERT OR IGNORE INTO exclusions
insertOrIgnoreRule(table, rule, isDefault) ==
  IF ruleExists(table, rule) THEN table
  ELSE table \cup {RuleRow(table, rule, isDefault)}

\* seedDefaultExclusions: INSERT OR IGNORE of every default, is_default = 1
RECURSIVE seedFrom(_, _)
seedFrom(table, i) ==
  IF i > Len(defaults) THEN table
  ELSE seedFrom(insertOrIgnoreRule(table, defaults[i], TRUE), i + 1)

seedDefaultExclusions(table) == seedFrom(table, 1)

\* the tables and indexes migrateV001 creates
V001Tables ==
  {"events", "content", "exclusions", "config", "embedding_metadata",
   "audit_log"}

V001Indexes ==
  {"idx_events_ts", "idx_events_domain", "idx_events_browser",
   "idx_events_source", "idx_events_content_hash", "idx_events_ts_domain",
   "idx_events_flags", "idx_exclusions_rule", "idx_audit_log_ts",
   "idx_audit_log_action"}

\* the schema_migrations row NewMigrationRunner's single migration records
InitialMigration == [version |-> 1, name |-> "initial_schema"]

(***************************************************************************)
(* Values of the model.                                                    *)
(***************************************************************************)
\* time.Time{} (IsZero); every other instant is a tick 0..MaxTick
ZeroTime == -1
Ticks == 0..MaxTick

HexDigitOf(r) == Char("0123456789abcdef", r + 1)

\* generateID from the random draw r: "CHR-" and 8 hex characters
generateID(r) == "CHR-" \o "0000000" \o HexDigitOf(r)

IDs == {generateID(r) : r \in 0..(NumIDs - 1)}

\* bodies as sequences of Unicode code points
Bodies == { <<99, 97, 102, 233, 8364>> }

Ev(url, title, domain, source, hasBody) ==
  [ID |-> "", URL |-> url, Title |-> title, Domain |-> domain,
   Timestamp |-> ZeroTime, Source |-> source, Browser |-> "",
   ContentHash |-> "", HasBody |-> hasBody, HasEmbed |-> FALSE]

NoEvent == Ev("", "", "", "", FALSE)

\* the events callers hand to the add operations (Timestamp is chosen
\* separately)
EventInputs ==
  { Ev("https://chase.com/accounts", "My Bank Account", "", "extension", FALSE),
    Ev("https://site.xxx/page", "Excluded by regex", "", "extension", FALSE),
    Ev("https://user@chase.com:443/", "Chase", "", "manual", FALSE),
    Ev("https://example.com/article", "Test Article", "", "manual", FALSE),
    Ev("http://a.com:8080/chase.com", "Chase Bank", "chase.com", "import",
       TRUE) }

\* the inputs of the runs in which single statements fail
FaultInputs ==
  { Ev("https://chase.com/accounts", "My Bank Account", "", "extension", FALSE),
    Ev("https://example.com/article", "Test Article", "", "manual", FALSE) }

\* the instants callers pass as Event.Timestamp
Timestamps == {ZeroTime} \cup Ticks
FaultTimestamps == {0, MaxTick}

\* the statement of an operation that is made to fail (an I/O error, a
\* cancelled context); "none" lets every statement run
AddEventFails == {"none", "rand", "event", "fts"}
AddEventWithContentFails ==
  {"none", "rand", "begin", "event", "content", "fts", "commit"}
DeleteEventFails == {"none", "fts", "event"}
PruneExpiredFails == {"none", "fts", "events"}
PurgeAllFails == {"none", "drop", "content", "events", "initFTS"}

(***************************************************************************)
(* State.                                                                  *)
(***************************************************************************)
VARIABLES
  events,            \* rows of the events table
  content,           \* rows of the content table
  events_fts,        \* rows of the FTS5 table events_fts, a bag
  ftsExists,         \* whether the virtual table events_fts exists
  exclusions,        \* rows of the exclusions table
  schema_migrations, \* rows of the schema_migrations table
  schema,            \* names of the tables and indexes of the file
  journal_mode,      \* PRAGMA journal_mode of the file
  domainExclusions,  \* SQLiteStore.domainExclusions
  regexExclusions,   \* SQLiteStore.regexExclusions (compiled)
  closed,            \* whether Close released the prepared statements
  cmd,               \* the command in progress or just returned
  running,           \* per process, the store operation or Run in progress
  last               \* the last call: its arguments, results and row counts

vars == <<events, content, events_fts, ftsExists, exclusions,
          schema_migrations, schema, journal_mode, domainExclusions,
          regexExclusions, closed, cmd, running, last>>

\* a command before Execute: its name, its flags (readable tells whether
\* the file BodyFile names can be read), the line read at the prompt (eof
\* when there is none), the locals of PruneCommand.Execute (cutoff, count,
\* pruned), the returned error and the steps taken so far
NoCommand ==
  [name |-> "", pc |-> "idle", All |-> FALSE, DryRun |-> FALSE,
   Force |-> FALSE, URL |-> "", Body |-> <<>>, BodyFile |-> "",
   readable |-> FALSE, answer |-> "", eof |-> FALSE, cutoff |-> ZeroTime,
   count |-> 0, pruned |-> 0, err |-> "nil", trace |-> <<>>]

\* the processes that use the database file
Procs == {"daemon", "cli"}

\* no operation in progress; of an operation in progress: its name, the
\* statement it runs next and its arguments and locals
Idle ==
  [op |-> "", pc |-> "", ev |-> NoEvent, id |-> "", olderThan |-> ZeroTime,
   applied |-> FALSE]

NoneRunning == [p \in Procs |-> Idle]

\* the database as one value
DB ==
  [events |-> events, content |-> content, fts |-> events_fts,
   ftsExists |-> ftsExists, exclusions |-> exclusions,
   schema_migrations |-> schema_migrations, schema |-> schema,
   journal_mode |-> journal_mode]

SetDB(d) ==
  /\ events' = d.events
  /\ content' = d.content
  /\ events_fts' = d.fts
  /\ ftsExists' = d.ftsExists
  /\ exclusions' = d.exclusions
  /\ schema_migrations' = d.schema_migrations
  /\ schema' = d.schema
  /\ journal_mode' = d.journal_mode

idsOf(rows) == {e.id : e \in rows}

(***************************************************************************)
(* Exclusion Engine.                                                       *)
(***************************************************************************)
\* loadExclusions that stops at the first pattern that does not compile: the
\* rows after it, in the order of their ids, are not loaded
loadExclusionsStops(table) ==
  LET bad == {t \in table : /\ t.rule_type = "regex"
                            /\ ~regexpCompile(t.rule_value).ok}
      read == {t \in table : \A b \in bad : t.id < b.id}
  IN  [domains |-> {r.rule_value : r \in {t \in read : t.rule_type = "domain"}},
       regexes |-> {c \in {regexpCompile(r.rule_value) :
                             r \in {t \in read : t.rule_type = "regex"}} : c.ok}]

\* loadExclusions: the two caches built from the exclusions table; a
\* pattern that does not compile is skipped
loadExclusions(table) ==
  [domains |-> {r.rule_value : r \in {t \in table : t.rule_type = "domain"}},
   regexes |-> {c \in {regexpCompile(r.rule_value) :
                         r \in {t \in table : t.rule_type = "regex"}} : c.ok}]

\* isExcluded without the pattern rules
isExcludedDomainsOnly(domain) == domain \in domainExclusions

\* isExcluded that reads the exclusions table at every call
isExcludedUncached(domain) ==
  LET cache == loadExclusions(exclusions)
  IN  \/ domain \in cache.domains
      \/ \E re \in cache.regexes : MatchString(re, domain)

\* isExcluded checks if a domain is blocked by exclusion rules
isExcluded(domain) ==
  \/ domain \in domainExclusions
  \/ \E re \in regexExclusions : MatchString(re, domain)

(***************************************************************************)
(* Time: Format(time.RFC3339) of a UTC instant keeps whole seconds; the    *)
(* fixed-width text compares as the number of seconds does.                *)
(***************************************************************************)
formatRFC3339(t) == t \div TicksPerSecond

\* parseTimestamp of a stored "2006-01-02T15:04:05Z" text
parseTimestamp(ts) == ts * TicksPerSecond

(***************************************************************************)
(* Rows.                                                                   *)
(***************************************************************************)
\* VALUES list of INSERT INTO events with url and title exchanged
EventRowSwapped(ev, hasBody) ==
  [id |-> ev.ID, ts |-> formatRFC3339(ev.Timestamp), url |-> ev.Title,
   title |-> ev.URL, domain |-> ev.Domain, browser |-> ev.Browser,
   source |-> ev.Source, has_body |-> hasBody,
   has_embedding |-> ev.HasEmbed, content_hash |-> ev.ContentHash,
   at |-> ev.Timestamp]

\* VALUES list of INSERT INTO events.  "at" is no column: it keeps the
\* instant the caller's Event carried, which the ts text truncates.
EventRow(ev, hasBody) ==
  [id |-> ev.ID, ts |-> formatRFC3339(ev.Timestamp), url |-> ev.URL,
   title |-> ev.Title, domain |-> ev.Domain, browser |-> ev.Browser,
   source |-> ev.Source, has_body |-> hasBody,
   has_embedding |-> ev.HasEmbed, content_hash |-> ev.ContentHash,
   at |-> ev.Timestamp]

\* bytes of the UTF-8 encoding of one code point
utf8Width(cp) ==
  IF cp < 128 THEN 1 ELSE IF cp < 2048 THEN 2 ELSE IF cp < 65536 THEN 3 ELSE 4

\* len(body) counted in characters instead of bytes
runeLen(body) == Len(body)

\* len(body): the byte length of a Go string
RECURSIVE byteLen(_)
byteLen(body) ==
  IF body = <<>> THEN 0 ELSE utf8Width(Head(body)) + byteLen(Tail(body))

ContentRow(id, body) ==
  [event_id |-> id, body |-> body, byte_size |-> byteLen(body)]

FtsEntry(ev) == [event_id |-> ev.ID, title |-> ev.Title, url |-> ev.URL]

(***************************************************************************)
(* Single SQL statements on a database value d.  Each yields               *)
(* [ok, db, n]: whether it succeeded, the database after it, and the rows  *)
(* affected.  fail is an injected failure of the statement.                *)
(***************************************************************************)
Failed(d) == [ok |-> FALSE, db |-> d, n |-> 0]
Done(d, n) == [ok |-> TRUE, db |-> d, n |-> n]

\* INSERT INTO events: id is the PRIMARY KEY
execInsertEvent(d, row, fail) ==
  IF fail \/ row.id \in idsOf(d.events) THEN Failed(d)
  ELSE Done([d EXCEPT !.events = @ \cup {row}], 1)

\* INSERT INTO content: event_id is the PRIMARY KEY and REFERENCES events(id)
execInsertContent(d, row, fail) ==
  IF \/ fail
     \/ row.event_id \in {c.event_id : c \in d.content}
     \/ row.event_id \notin idsOf(d.events)
  THEN Failed(d)
  ELSE Done([d EXCEPT !.content = @ \cup {row}], 1)

\* INSERT INTO events_fts that reports success and writes nothing
execInsertFTSNothing(d, entry, fail) ==
  IF fail \/ ~d.ftsExists THEN Failed(d) ELSE Done(d, 1)

\* INSERT INTO events_fts: fails when the virtual table is missing
execInsertFTS(d, entry, fail) ==
  IF fail \/ ~d.ftsExists THEN Failed(d)
  ELSE Done([d EXCEPT !.fts = @ (+) SetToBag({entry})], 1)

\* the bag b without the entries whose event_id is in ids
ftsWithout(b, ids) ==
  LET keep == {e \in BagToSet(b) : e.event_id \notin ids}
  IN  [e \in keep |-> b[e]]

\* a DELETE FROM events_fts that removes nothing
execDeleteFTSNothing(d, ids, fail) ==
  IF fail \/ ~d.ftsExists THEN Failed(d) ELSE Done(d, 0)

\* DELETE FROM events_fts WHERE event_id IN ids
execDeleteFTS(d, ids, fail) ==
  IF fail \/ ~d.ftsExists THEN Failed(d)
  ELSE Done([d EXCEPT !.fts = ftsWithout(@, ids)], 0)

\* content rows left without the cascade (foreign_keys off)
cascadeContentOff(rows, ids) == rows

\* content(event_id) REFERENCES events(id) ON DELETE CASCADE, with
\* PRAGMA foreign_keys = ON
cascadeContent(rows, ids) == {c \in rows : c.event_id \notin ids}

\* a DELETE FROM events that removes nothing
execDeleteEventsNothing(d, ids, fail) ==
  IF fail THEN Failed(d) ELSE Done(d, 0)

\* DELETE FROM events WHERE id IN ids; content cascades
execDeleteEvents(d, ids, fail) ==
  IF fail THEN Failed(d)
  ELSE Done([d EXCEPT !.events = {e \in @ : e.id \notin ids},
                      !.content = cascadeContent(@, ids)],
            Cardinality(idsOf(d.events) \cap ids))

\* DELETE FROM content
execDeleteContent(d, fail) ==
  IF fail THEN Failed(d) ELSE Done([d EXCEPT !.content = {}], 0)

\* DROP TABLE IF EXISTS events_fts
execDropFTS(d, fail) ==
  IF fail THEN Failed(d)
  ELSE Done([d EXCEPT !.fts = EmptyBag, !.ftsExists = FALSE], 0)

\* initFTS: CREATE VIRTUAL TABLE IF NOT EXISTS events_fts
initFTS(d, fail) ==
  IF fail THEN Failed(d) ELSE Done([d EXCEPT !.ftsExists = TRUE], 0)

\* WHERE ts <= ? instead of ts < ?
expiredOrEqual(row, tsFormatted) == row.ts <= tsFormatted

\* WHERE ts < ? of PruneExpired, on the stored text
expired(row, tsFormatted) == row.ts < tsFormatted

(***************************************************************************)
(* Event Store operations.  Each yields [err, ev, db, n]: the returned     *)
(* error ("nil" for none), the caller's Event after the call, the          *)
(* database after the call and the returned count.                         *)
(***************************************************************************)
Ret(err, ev, d, n) == [err |-> err, ev |-> ev, db |-> d, n |-> n]

\* the caller's Event once ID and Timestamp are populated
populated(ev, r, now) ==
  [ev EXCEPT !.ID = generateID(r),
             !.Timestamp = IF @ = ZeroTime THEN now ELSE @]

\* AddEvent from the exclusion check on: e1 is the caller's Event with its
\* Domain derived, r the random draw, now the clock reading
AddEventResult(d, e1, r, now, fail) ==
  LET e2 == populated(e1, r, now)
      s1 == execInsertEvent(d, EventRow(e2, e2.HasBody), fail = "event")
      s2 == execInsertFTS(s1.db, FtsEntry(e2), fail = "fts")
  IN  IF isExcluded(e1.Domain) THEN Ret("nil", e1, d, 0)
      ELSE IF fail = "rand" THEN Ret("generate ID", e1, d, 0)
      ELSE IF ~s1.ok THEN Ret("insert event", e2, d, 0)
      ELSE IF ~s2.ok THEN Ret("insert FTS", e2, s1.db, 0)
      ELSE Ret("nil", e2, s2.db, 0)

\* AddEventWithContent without the exclusion check
AddEventWithContentUnchecked(d, e1, body, r, now, fail) ==
  LET e2 == [populated(e1, r, now) EXCEPT !.HasBody = TRUE]
      s1 == execInsertEvent(d, EventRow(e2, TRUE), fail = "event")
      s2 == execInsertContent(s1.db, ContentRow(e2.ID, body), fail = "content")
      s3 == execInsertFTS(s2.db, FtsEntry(e2), fail = "fts")
  IN  IF fail = "rand" THEN Ret("generate ID", e1, d, 0)
      ELSE IF fail = "begin" THEN Ret("begin tx", e2, d, 0)
      ELSE IF ~s1.ok THEN Ret("insert event", e2, d, 0)
      ELSE IF ~s2.ok THEN Ret("insert content", e2, d, 0)
      ELSE IF ~s3.ok THEN Ret("insert FTS", e2, d, 0)
      ELSE IF fail = "commit" THEN Ret("commit", e2, d, 0)
      ELSE Ret("nil", e2, s3.db, 0)

\* AddEventWithContent with the statements run outside a transaction
AddEventWithContentNoTx(d, e1, body, r, now, fail) ==
  LET e2 == [populated(e1, r, now) EXCEPT !.HasBody = TRUE]
      s1 == execInsertEvent(d, EventRow(e2, TRUE), fail = "event")
      s2 == execInsertContent(s1.db, ContentRow(e2.ID, body), fail = "content")
      s3 == execInsertFTS(s2.db, FtsEntry(e2), fail = "fts")
  IN  IF isExcluded(e1.Domain) THEN Ret("nil", e1, d, 0)
      ELSE IF fail = "rand" THEN Ret("generate ID", e1, d, 0)
      ELSE IF fail = "begin" THEN Ret("begin tx", e2, d, 0)
      ELSE IF ~s1.ok THEN Ret("insert event", e2, d, 0)
      ELSE IF ~s2.ok THEN Ret("insert content", e2, s1.db, 0)
      ELSE IF ~s3.ok THEN Ret("insert FTS", e2, s2.db, 0)
      ELSE IF fail = "commit" THEN Ret("commit", e2, s3.db, 0)
      ELSE Ret("nil", e2, s3.db, 0)

\* AddEventWithContent from the exclusion check on, for the Event e1 with
\* its Domain derived: the three inserts run in one transaction; every
\* error return reaches the deferred tx.Rollback, and a failed Commit
\* leaves nothing behind
AddEventWithContentResult(d, e1, body, r, now, fail) ==
  LET e2 == [populated(e1, r, now) EXCEPT !.HasBody = TRUE]
      s1 == execInsertEvent(d, EventRow(e2, TRUE), fail = "event")
      s2 == execInsertContent(s1.db, ContentRow(e2.ID, body), fail = "content")
      s3 == execInsertFTS(s2.db, FtsEntry(e2), fail = "fts")
  IN  IF isExcluded(e1.Domain) THEN Ret("nil", e1, d, 0)
      ELSE IF fail = "rand" THEN Ret("generate ID", e1, d, 0)
      ELSE IF fail = "begin" THEN Ret("begin tx", e2, d, 0)
      ELSE IF ~s1.ok THEN Ret("insert event", e2, d, 0)
      ELSE IF ~s2.ok THEN Ret("insert content", e2, d, 0)
      ELSE IF ~s3.ok THEN Ret("insert FTS", e2, d, 0)
      ELSE IF fail = "commit" THEN Ret("commit", e2, d, 0)
      ELSE Ret("nil", e2, s3.db, 0)


\* GetEvent: [err, ev]
GetEvent(id) ==
  IF id \notin idsOf(events) THEN [err |-> "not found", ev |-> NoEvent]
  ELSE LET row == CHOOSE e \in events : e.id = id
       IN  [err |-> "nil",
            ev |-> [ID |-> row.id, URL |-> row.url, Title |-> row.title,
                    Domain |-> row.domain,
                    Timestamp |-> parseTimestamp(row.ts),
                    Source |-> row.source, Browser |-> row.browser,
                    ContentHash |-> row.content_hash,
                    HasBody |-> row.has_body, HasEmbed |-> row.has_embedding]]

\* GetContent answering from the events table
GetContentOfEvent(eventID) ==
  IF eventID \notin idsOf(events)
  THEN [err |-> "not found", c |-> [EventID |-> "", Body |-> <<>>]]
  ELSE [err |-> "nil", c |-> [EventID |-> eventID, Body |-> <<>>]]

\* GetContent: [err, c]
GetContent(eventID) ==
  IF eventID \notin {c.event_id : c \in content}
  THEN [err |-> "not found", c |-> [EventID |-> "", Body |-> <<>>]]
  ELSE LET row == CHOOSE c \in content : c.event_id = eventID
       IN  [err |-> "nil", c |-> [EventID |-> row.event_id, Body |-> row.body]]

(***************************************************************************)
(* Search Engine.  The FTS5 table uses tokenize='unicode61': a token is a  *)
(* maximal run of letters and digits, folded to lower case.                *)
(***************************************************************************)
LowerCase == "abcdefghijklmnopqrstuvwxyz"
UpperCase == "ABCDEFGHIJKLMNOPQRSTUVWXYZ"

UpperSet == {Char(UpperCase, k) : k \in 1..Len(UpperCase)}

fold(c) ==
  IF c \in UpperSet THEN Char(LowerCase, Index(UpperCase, c)) ELSE c

RECURSIVE tokenizeFrom(_, _, _)
tokenizeFrom(text, i, cur) ==
  LET flush == IF cur = "" THEN <<>> ELSE <<cur>>
  IN  IF i > Len(text) THEN flush
      ELSE IF Char(text, i) \in Letters \cup Digits
        THEN tokenizeFrom(text, i + 1, cur \o fold(Char(text, i)))
      ELSE flush \o tokenizeFrom(text, i + 1, "")

\* strings.Fields: the maximal runs of non-space characters
RECURSIVE fieldsFrom(_, _, _)
fieldsFrom(input, i, cur) ==
  LET flush == IF cur = "" THEN <<>> ELSE <<cur>>
  IN  IF i > Len(input) THEN flush
      ELSE IF Char(input, i) = " "
        THEN flush \o fieldsFrom(input, i + 1, "")
      ELSE fieldsFrom(input, i + 1, cur \o Char(input, i))

\* the titles of the model's events
KnownTitles == {in.Title : in \in EventInputs \cup FaultInputs}

\* the unicode61 tokens of the known texts, computed once
knownTokens ==
  [text \in KnownURLs \cup KnownTitles |-> tokenizeFrom(text, 1, "")]

tokenize(text) ==
  IF text \in DOMAIN knownTokens THEN knownTokens[text]
  ELSE tokenizeFrom(text, 1, "")

\* strings.Join(parts, " OR ")
RECURSIVE joinOR(_, _)
joinOR(parts, i) ==
  IF i > Len(parts) THEN ""
  ELSE IF i = Len(parts) THEN parts[i]
  ELSE parts[i] \o " OR " \o joinOR(parts, i + 1)

\* ftsQuery with exact terms: the prefix wildcard left out
ftsQueryExact(input) ==
  LET words == fieldsFrom(input, 1, "")
  IN  joinOR([k \in 1..Len(words) |-> "\"" \o words[k] \o "\""], 1)

\* ftsQuery: each word becomes a quoted prefix token joined with OR; the
\* empty string when the input has no word
ftsQuery(input) ==
  LET words == fieldsFrom(input, 1, "")
  IN  joinOR([k \in 1..Len(words) |-> "\"" \o words[k] \o "\"*"], 1)

(***************************************************************************)
(* The FTS5 query language, as far as the strings ftsQuery builds reach    *)
(* it: quoted strings (a doubled quote inside stands for one quote),       *)
(* barewords, the prefix star and the operators OR, AND, NOT.  A character *)
(* that starts none of these is a syntax error.                            *)
(***************************************************************************)
Tok(k, t) == [k |-> k, t |-> t]

\* the text and the closing position of the quoted string whose body
\* starts at j; end 0 when the string is not terminated
RECURSIVE fts5String(_, _, _)
fts5String(z, j, acc) ==
  IF j > Len(z) THEN [end |-> 0, text |-> acc]
  ELSE IF Char(z, j) = "\""
    THEN IF j < Len(z) /\ Char(z, j + 1) = "\""
           THEN fts5String(z, j + 2, acc \o "\"")
           ELSE [end |-> j, text |-> acc]
  ELSE fts5String(z, j + 1, acc \o Char(z, j))

BarewordChars == Letters \cup Digits \cup {"_"}

\* the last position of the bareword that starts at i
RECURSIVE barewordEnd(_, _)
barewordEnd(z, i) ==
  IF i < Len(z) /\ Char(z, i + 1) \in BarewordChars
  THEN barewordEnd(z, i + 1) ELSE i

RECURSIVE fts5Tokens(_, _)
fts5Tokens(z, i) ==
  IF i > Len(z) THEN <<>>
  ELSE IF Char(z, i) = " " THEN fts5Tokens(z, i + 1)
  ELSE IF Char(z, i) = "*" THEN <<Tok("star", "")>> \o fts5Tokens(z, i + 1)
  ELSE IF Char(z, i) = "\""
    THEN LET s == fts5String(z, i + 1, "")
         IN  IF s.end = 0 THEN <<Tok("unterminated", "")>>
             ELSE <<Tok("term", s.text)>> \o fts5Tokens(z, s.end + 1)
  ELSE IF Char(z, i) \in BarewordChars
    THEN LET j == barewordEnd(z, i)
             w == SubSeq(z, i, j)
         IN  <<IF w \in {"OR", "AND", "NOT"} THEN Tok(w, "")
               ELSE Tok("term", w)>> \o fts5Tokens(z, j + 1)
  ELSE <<Tok("bad", Char(z, i))>>

Parsed(node, next) == [ok |-> TRUE, node |-> node, next |-> next]
Unparsed(at) == [ok |-> FALSE, node |-> <<>>, next |-> at]

\* phrase+ : the phrases of an implicit AND, each a term with an optional
\* star
RECURSIVE parsePhrases(_, _, _)
parsePhrases(ts, i, acc) ==
  IF i <= Len(ts) /\ ts[i].k = "term"
  THEN LET star == i < Len(ts) /\ ts[i + 1].k = "star"
           ph == [terms |-> tokenize(ts[i].t), prefix |-> star]
       IN  parsePhrases(ts, IF star THEN i + 2 ELSE i + 1, Append(acc, ph))
  ELSE IF acc = <<>> THEN Unparsed(i)
  ELSE Parsed([op |-> "list", items |-> acc], i)

\* left-associative chains of one operator over the next tighter level:
\* NOT binds tighter than AND, AND tighter than OR
OperatorLevels == <<"OR", "AND", "NOT">>

RECURSIVE parseLevel(_, _, _)
RECURSIVE parseRest(_, _, _, _)
parseLevel(ts, i, lv) ==
  IF lv > Len(OperatorLevels) THEN parsePhrases(ts, i, <<>>)
  ELSE LET l == parseLevel(ts, i, lv + 1)
       IN  IF l.ok THEN parseRest(ts, l, l.next, lv) ELSE l

parseRest(ts, l, i, lv) ==
  IF i <= Len(ts) /\ ts[i].k = OperatorLevels[lv]
  THEN LET r == parseLevel(ts, i + 1, lv + 1)
       IN  IF r.ok
           THEN parseRest(ts, Parsed([op |-> OperatorLevels[lv],
                                      l |-> l.node, r |-> r.node], r.next),
                          r.next, lv)
           ELSE r
  ELSE Parsed(l.node, i)

\* the expression of a MATCH argument, or the error FTS5 reports for it
fts5Parse(z) ==
  LET ts == fts5Tokens(z, 1)
      p == parseLevel(ts, 1, 1)
      at == p.next
  IN  IF p.ok /\ at > Len(ts) THEN [err |-> "nil", node |-> p.node]
      ELSE IF at <= Len(ts) /\ ts[at].k = "unterminated"
        THEN [err |-> "unterminated string", node |-> <<>>]
      ELSE [err |-> "fts5: syntax error", node |-> <<>>]

\* the phrase ph occurs in the column col at position i; with prefix, its
\* last token need only begin the column's token
phraseAt(col, ph, i) ==
  /\ i + Len(ph.terms) - 1 <= Len(col)
  /\ \A j \in 1..Len(ph.terms) :
       IF j = Len(ph.terms) /\ ph.prefix
       THEN HasPrefix(col[i + j - 1], ph.terms[j])
       ELSE col[i + j - 1] = ph.terms[j]

phraseIn(cols, ph) ==
  \E c \in 1..Len(cols) : \E i \in 1..Len(cols[c]) : phraseAt(cols[c], ph, i)

\* whether the columns of one index entry match the expression; a phrase
\* without tokens matches nothing and is dropped from an implicit AND
RECURSIVE fts5Eval(_, _)
fts5Eval(node, cols) ==
  IF node.op = "list"
  THEN LET real == {k \in 1..Len(node.items) : node.items[k].terms # <<>>}
       IN  /\ real # {}
           /\ \A k \in real : phraseIn(cols, node.items[k])
  ELSE IF node.op = "OR"
    THEN fts5Eval(node.l, cols) \/ fts5Eval(node.r, cols)
  ELSE IF node.op = "AND"
    THEN fts5Eval(node.l, cols) /\ fts5Eval(node.r, cols)
  ELSE fts5Eval(node.l, cols) /\ ~fts5Eval(node.r, cols)

\* events_fts MATCH expr on one index entry: the title and url columns
ftsMatch(entry, expr) ==
  fts5Eval(expr, <<tokenize(entry.title), tokenize(entry.url)>>)

\* SearchQuery as the search command fills it
NoQuery ==
  [Query |-> "", Domain |-> "", Source |-> "", Browser |-> "",
   HasBody |-> FALSE, HasEmbedding |-> FALSE, Since |-> ZeroTime,
   Until |-> ZeroTime, Limit |-> 0, Offset |-> 0]

SearchQuery(query, domain) ==
  [NoQuery EXCEPT !.Query = query, !.Domain = domain]

\* the conditions with the domain matched as a suffix
filtersDomainSuffix(q, e) ==
  /\ q.Domain = "" \/ HasSuffix(e.domain, q.Domain)
  /\ q.Source = "" \/ e.source = q.Source
  /\ q.Since = ZeroTime \/ e.ts >= formatRFC3339(q.Since)
  /\ q.Until = ZeroTime \/ e.ts <= formatRFC3339(q.Until)

\* the optional conditions both search paths add to WHERE
filters(q, e) ==
  /\ q.Domain = "" \/ e.domain = q.Domain
  /\ q.Source = "" \/ e.source = q.Source
  /\ q.Since = ZeroTime \/ e.ts >= formatRFC3339(q.Since)
  /\ q.Until = ZeroTime \/ e.ts <= formatRFC3339(q.Until)

\* the sequences that hold every row of a set once
Orderings(rows) ==
  {s \in [1..Cardinality(rows) -> rows] :
     \A i, j \in 1..Cardinality(rows) : i # j => s[i] # s[j]}

\* ORDER BY ts DESC: rows of equal ts come in the order of the scan, which
\* the stored rows fix
orderByTsDesc(rows) ==
  CHOOSE s \in Orderings(rows) :
    \A i \in 1..(Len(s) - 1) : s[i].ts >= s[i + 1].ts

\* ORDER BY rank: an order the index entries of the matching rows fix
orderByRank(rows) == CHOOSE s \in Orderings(rows) : TRUE

\* LIMIT ? OFFSET ? that returns the first rows whatever the offset
limitOnly(list, limit, offset) ==
  SubSeq(list, 1, IF limit < Len(list) THEN limit ELSE Len(list))

\* LIMIT ? OFFSET ?; a negative offset counts as 0
limitOffset(list, limit, offset) ==
  LET from == IF offset < 0 THEN 0 ELSE offset
      to == IF from + limit < Len(list) THEN from + limit ELSE Len(list)
  IN  SubSeq(list, from + 1, to)

\* scanEvents: a result row as an Event
scanEvent(row) ==
  [ID |-> row.id, URL |-> row.url, Title |-> row.title,
   Domain |-> row.domain, Timestamp |-> parseTimestamp(row.ts),
   Source |-> row.source, Browser |-> row.browser,
   ContentHash |-> row.content_hash, HasBody |-> row.has_body,
   HasEmbed |-> row.has_embedding]

scanEvents(rows) == [k \in 1..Len(rows) |-> scanEvent(rows[k])]

\* searchFiltered: the rows of events that satisfy the filters, most
\* recent first
searchFiltered(q) ==
  [err |-> "nil",
   list |-> scanEvents(limitOffset(
              orderByTsDesc({e \in events : filters(q, e)}),
              q.Limit, q.Offset))]

\* searchFTS: events_fts JOIN events ON e.id = f.event_id WHERE events_fts
\* MATCH ? and the filters, by rank: one row for each index entry of a
\* matching event.  An expression FTS5 rejects ends the query with its
\* error, from QueryContext or from rows.Err().
searchFTS(q) ==
  LET expr == fts5Parse(ftsQuery(q.Query))
      hits == {f \in BagToSet(events_fts) : ftsMatch(f, expr.node)}
      rows == {[f |-> f, copy |-> c, e |-> e] :
                 f \in hits, c \in 1..NumIDs,
                 e \in {x \in events : filters(q, x)}}
      joined == {r \in rows : /\ r.e.id = r.f.event_id
                              /\ r.copy <= CopiesIn(r.f, events_fts)}
      page == limitOffset(orderByRank(joined), q.Limit, q.Offset)
  IN  IF ~ftsExists
      THEN [err |-> "query events: no such table: events_fts",
            list |-> <<>>]
      ELSE IF expr.err # "nil"
        THEN [err |-> expr.err, list |-> <<>>]
      ELSE [err |-> "nil",
            list |-> scanEvents([k \in 1..Len(page) |-> page[k].e])]

\* the page size of a query that names none
DefaultLimit == 50

\* SearchEvents that hands the caller's limit to the statement as it is
SearchEventsNoDefault(query) ==
  IF query.Query # "" THEN searchFTS(query) ELSE searchFiltered(query)

\* SearchEvents: the error and the list of Events returned
SearchEvents(query) ==
  LET q == IF query.Limit <= 0 THEN [query EXCEPT !.Limit = DefaultLimit]
           ELSE query
  IN  IF q.Query # "" THEN searchFTS(q) ELSE searchFiltered(q)

\* the Events of a list
Listed(list) == {list[k] : k \in 1..Len(list)}

\* the queries callers make
Queries ==
  { SearchQuery("", ""), SearchQuery("", "chase.com"),
    SearchQuery("", "site.xxx"), SearchQuery("bank", ""),
    SearchQuery("chase accounts", ""), SearchQuery("Excl xxx", "") }

\* DeleteEvent without the RowsAffected test
DeleteEventUncounted(d, id, fail) ==
  LET s1 == execDeleteFTS(d, {id}, fail = "fts")
      s2 == execDeleteEvents(s1.db, {id}, fail = "event")
  IN  IF ~s1.ok THEN Ret("delete FTS entry", NoEvent, d, 0)
      ELSE IF ~s2.ok THEN Ret("delete event", NoEvent, s1.db, 0)
      ELSE Ret("nil", NoEvent, s2.db, 0)

\* DeleteEvent: the index entry, then the event row
DeleteEventResult(d, id, fail) ==
  LET s1 == execDeleteFTS(d, {id}, fail = "fts")
      s2 == execDeleteEvents(s1.db, {id}, fail = "event")
  IN  IF ~s1.ok THEN Ret("delete FTS entry", NoEvent, d, 0)
      ELSE IF ~s2.ok THEN Ret("delete event", NoEvent, s1.db, 0)
      ELSE IF s2.n = 0 THEN Ret("not found", NoEvent, s2.db, 0)
      ELSE Ret("nil", NoEvent, s2.db, 0)

(***************************************************************************)
(* Retention Engine.                                                       *)
(***************************************************************************)
\* PruneExpired: index entries of the expired events, then the events
PruneExpiredResult(d, olderThan, fail) ==
  LET tsFormatted == formatRFC3339(olderThan)
      old == {e.id : e \in {r \in d.events : expired(r, tsFormatted)}}
      s1 == execDeleteFTS(d, old, fail = "fts")
      s2 == execDeleteEvents(s1.db, old, fail = "events")
  IN  IF ~s1.ok THEN Ret("prune FTS", NoEvent, d, 0)
      ELSE IF ~s2.ok THEN Ret("prune events", NoEvent, s1.db, 0)
      ELSE Ret("nil", NoEvent, s2.db, s2.n)

\* PurgeAll that returns after the last DELETE, the index not recreated
PurgeAllNoIndex(d, fail) ==
  LET s1 == execDropFTS(d, fail = "drop")
      s2 == execDeleteContent(s1.db, fail = "content")
      s3 == execDeleteEvents(s2.db, idsOf(s2.db.events), fail = "events")
  IN  IF ~s1.ok THEN Ret("purge", NoEvent, d, 0)
      ELSE IF ~s2.ok THEN Ret("purge", NoEvent, s1.db, 0)
      ELSE IF ~s3.ok THEN Ret("purge", NoEvent, s2.db, 0)
      ELSE Ret("nil", NoEvent, s3.db, 0)

\* PurgeAll: drop the index, empty content, empty events, recreate the index
PurgeAllResult(d, fail) ==
  LET s1 == execDropFTS(d, fail = "drop")
      s2 == execDeleteContent(s1.db, fail = "content")
      s3 == execDeleteEvents(s2.db, idsOf(s2.db.events), fail = "events")
      s4 == initFTS(s3.db, fail = "initFTS")
  IN  IF ~s1.ok THEN Ret("purge", NoEvent, d, 0)
      ELSE IF ~s2.ok THEN Ret("purge", NoEvent, s1.db, 0)
      ELSE IF ~s3.ok THEN Ret("purge", NoEvent, s2.db, 0)
      ELSE IF ~s4.ok THEN Ret("init FTS", NoEvent, s3.db, 0)
      ELSE Ret("nil", NoEvent, s4.db, 0)

(***************************************************************************)
(* The state machine: one store on one database, calls made one at a time. *)
(***************************************************************************)
\* rows of each table the call removed
Removed(d) ==
  [events |-> Cardinality(events \ d.events),
   content |-> Cardinality(content \ d.content),
   fts |-> Cardinality(BagToSet(events_fts) \ BagToSet(d.fts))]

\* the call just made: its arguments (id, body, olderThan), what it
\* returned (err, ev, n, and out for a Content or a list of Events), the
\* rows it removed, and for a search its SearchQuery q
Call(op, res, id, body, olderThan) ==
  [op |-> op, err |-> res.err, ev |-> res.ev, n |-> res.n, id |-> id,
   body |-> body, olderThan |-> olderThan, removed |-> Removed(res.db),
   out |-> <<>>, q |-> NoQuery]

(***************************************************************************)
(* Migration runner.                                                       *)
(***************************************************************************)
\* a database file sql.Open has just created
EmptyFile ==
  [events |-> {}, content |-> {}, fts |-> EmptyBag, ftsExists |-> FALSE,
   exclusions |-> {}, schema_migrations |-> {}, schema |-> {},
   journal_mode |-> "delete"]

\* the statement of Run that is made to fail; "none" lets every one run
RunFails ==
  {"none", "wal", "foreign_keys", "create", "check", "begin", "schema",
   "seed", "record", "commit"}

\* isApplied that finds no version recorded
isAppliedNever(d, version) == FALSE

\* isApplied: SELECT COUNT(*) FROM schema_migrations WHERE version = ?
isApplied(d, version) == \E r \in d.schema_migrations : r.version = version

\* migrateV001 on the transaction: the CREATE ... IF NOT EXISTS statements,
\* then the seed; a failing statement leaves what ran before it
migrateV001(d, fail) ==
  LET tables == [d EXCEPT !.schema = @ \cup V001Tables]
      all == [tables EXCEPT !.schema = @ \cup V001Indexes]
  IN  IF fail = "schema" THEN Failed(tables)
      ELSE IF fail = "seed"
        THEN Failed([all EXCEPT !.exclusions =
                       insertOrIgnoreRule(@, defaults[1], TRUE)])
      ELSE Done([all EXCEPT !.exclusions = seedDefaultExclusions(@)], 0)

\* INSERT INTO schema_migrations (version, name) without a PRIMARY KEY
recordMigrationUnchecked(d, m, fail) ==
  IF fail = "record" THEN Failed(d)
  ELSE Done([d EXCEPT !.schema_migrations = @ \cup {m}], 0)

\* INSERT INTO schema_migrations (version, name) under the PRIMARY KEY
recordMigration(d, m, fail) ==
  IF fail = "record" \/ (\E r \in d.schema_migrations : r.version = m.version)
  THEN Failed(d)
  ELSE Done([d EXCEPT !.schema_migrations = @ \cup {m}], 0)

\* apply without the transaction: what ran before the failure stays
applyNoTx(d, m, fail) ==
  LET s1 == migrateV001(d, fail)
      s2 == recordMigration(s1.db, m, fail)
  IN  IF fail = "begin" THEN Ret("begin transaction", NoEvent, d, 0)
      ELSE IF ~s1.ok THEN Ret("apply", NoEvent, s1.db, 0)
      ELSE IF ~s2.ok THEN Ret("record migration", NoEvent, s2.db, 0)
      ELSE IF fail = "commit" THEN Ret("commit", NoEvent, s2.db, 0)
      ELSE Ret("nil", NoEvent, s2.db, 0)

\* apply executes a migration inside a transaction and records it; the
\* deferred Rollback undoes every statement of a failed attempt
apply(d, m, fail) ==
  LET s1 == migrateV001(d, fail)
      s2 == recordMigration(s1.db, m, fail)
  IN  IF fail = "begin" THEN Ret("begin transaction", NoEvent, d, 0)
      ELSE IF ~s1.ok THEN Ret("apply", NoEvent, d, 0)
      ELSE IF ~s2.ok THEN Ret("record migration", NoEvent, d, 0)
      ELSE IF fail = "commit" THEN Ret("commit", NoEvent, d, 0)
      ELSE Ret("nil", NoEvent, s2.db, 0)

\* MigrationRunner.Run: the pragmas and the tracking table, outside any
\* transaction, then every migration not yet recorded
RunResult(d, fail) ==
  LET wal == [d EXCEPT !.journal_mode = "wal"]
      tracked == [wal EXCEPT !.schema = @ \cup {"schema_migrations"}]
      a == apply(tracked, InitialMigration, fail)
  IN  IF fail = "wal" THEN Ret("set WAL mode", NoEvent, d, 0)
      ELSE IF fail = "foreign_keys"
        THEN Ret("enable foreign keys", NoEvent, wal, 0)
      ELSE IF fail = "create"
        THEN Ret("create schema_migrations table", NoEvent, wal, 0)
      ELSE IF fail = "check" THEN Ret("check migration", NoEvent, tracked, 0)
      ELSE IF isApplied(tracked, InitialMigration.version)
        THEN Ret("nil", NoEvent, tracked, 0)
      ELSE IF a.err # "nil"
        THEN Ret("apply migration: " \o a.err, NoEvent, a.db, 0)
      ELSE Ret("nil", NoEvent, a.db, 0)

\* the database after NewMigrationRunner(db).Run() on an empty file
Migrated == RunResult(EmptyFile, "none").db

\* the readings of time.Now() that matter to an add: the clock is read only
\* when the Event's Timestamp is zero
Clock(t) == IF t = ZeroTime THEN Ticks ELSE {0}

\* after Run and NewSQLiteStore
Init ==
  LET d == initFTS(Migrated, FALSE).db
      cache == loadExclusions(d.exclusions)
  IN  /\ events = d.events
      /\ content = d.content
      /\ events_fts = d.fts
      /\ ftsExists = d.ftsExists
      /\ exclusions = d.exclusions
      /\ schema_migrations = d.schema_migrations
      /\ schema = d.schema
      /\ journal_mode = d.journal_mode
      /\ domainExclusions = cache.domains
      /\ regexExclusions = cache.regexes
      /\ closed = FALSE
      /\ cmd = NoCommand
      /\ running = NoneRunning
      /\ last = [op |-> "NewSQLiteStore", err |-> "nil", ev |-> NoEvent,
                 n |-> 0, id |-> "", body |-> <<>>, olderThan |-> ZeroTime,
                 removed |-> [events |-> 0, content |-> 0, fts |-> 0],
                 out |-> <<>>, q |-> NoQuery]

\* a process opens the database again: initFTS and loadExclusions
NewSQLiteStore ==
  LET s == initFTS(DB, FALSE)
      cache == loadExclusions(s.db.exclusions)
  IN  /\ SetDB(s.db)
      /\ domainExclusions' = cache.domains
      /\ regexExclusions' = cache.regexes
      /\ closed' = FALSE
      /\ UNCHANGED <<cmd, running>>
      /\ last' = Call("NewSQLiteStore", Ret("nil", NoEvent, s.db, 0), "",
                      <<>>, ZeroTime)

\* the caller's Event with its own Domain kept when it has one
withDomainTrusted(in) ==
  IF in.Domain # "" THEN in ELSE [in EXCEPT !.Domain = extractDomain(in.URL)]

\* the caller's Event after event.Domain = extractDomain(event.URL)
withDomain(in) == [in EXCEPT !.Domain = extractDomain(in.URL)]

AddEventCall(inputs, stamps, fails) ==
  \E in \in inputs :
   \E e1 \in {withDomain(in)} :
    \E t \in stamps, r \in 0..(NumIDs - 1), fail \in fails :
     \E now \in Clock(t) :
      \E res \in {AddEventResult(DB, [e1 EXCEPT !.Timestamp = t], r, now,
                                 fail)} :
        /\ SetDB(res.db)
        /\ last' = Call("AddEvent", res, "", <<>>, ZeroTime)
        /\ UNCHANGED <<domainExclusions, regexExclusions, closed, cmd, running>>

AddEventWithContentCall(inputs, stamps, fails) ==
  \E in \in inputs :
   \E e1 \in {withDomain(in)} :
    \E t \in stamps, body \in Bodies, r \in 0..(NumIDs - 1), fail \in fails :
     \E now \in Clock(t) :
      \E res \in {AddEventWithContentResult(DB, [e1 EXCEPT !.Timestamp = t],
                                            body, r, now, fail)} :
        /\ SetDB(res.db)
        /\ last' = Call("AddEventWithContent", res, "", body, ZeroTime)
        /\ UNCHANGED <<domainExclusions, regexExclusions, closed, cmd, running>>

DeleteEventCall(fails) ==
  \E id \in IDs, fail \in fails :
    \E res \in {DeleteEventResult(DB, id, fail)} :
      /\ SetDB(res.db)
      /\ last' = Call("DeleteEvent", res, id, <<>>, ZeroTime)
      /\ UNCHANGED <<domainExclusions, regexExclusions, closed, cmd, running>>

PruneExpiredCall(fails) ==
  \E olderThan \in Ticks, fail \in fails :
    \E res \in {PruneExpiredResult(DB, olderThan, fail)} :
      /\ SetDB(res.db)
      /\ last' = Call("PruneExpired", res, "", <<>>, olderThan)
      /\ UNCHANGED <<domainExclusions, regexExclusions, closed, cmd, running>>

PurgeAllCall(fails) ==
  \E fail \in fails :
    \E res \in {PurgeAllResult(DB, fail)} :
      /\ SetDB(res.db)
      /\ last' = Call("PurgeAll", res, "", <<>>, ZeroTime)
      /\ UNCHANGED <<domainExclusions, regexExclusions, closed, cmd, running>>

\* the calls when every statement runs
AddEvent == AddEventCall(EventInputs, Timestamps, {"none"})
AddEventWithContent ==
  AddEventWithContentCall(EventInputs, Timestamps, {"none"})
DeleteEvent == DeleteEventCall({"none"})
PruneExpired == PruneExpiredCall({"none"})
PurgeAll == PurgeAllCall({"none"})

Next ==
  \/ NewSQLiteStore
  \/ AddEvent
  \/ AddEventWithContent
  \/ DeleteEvent
  \/ PruneExpired
  \/ PurgeAll

Spec == Init /\ [][Next]_vars

\* the calls when any single statement may fail
AddEventFaulty == AddEventCall(FaultInputs, FaultTimestamps, AddEventFails)
AddEventWithContentFaulty ==
  AddEventWithContentCall(FaultInputs, FaultTimestamps,
                          AddEventWithContentFails)
DeleteEventFaulty == DeleteEventCall(DeleteEventFails)
PruneExpiredFaulty == PruneExpiredCall(PruneExpiredFails)
PurgeAllFaulty == PurgeAllCall(PurgeAllFails)

NextFaults ==
  \/ NewSQLiteStore
  \/ AddEventFaulty
  \/ AddEventWithContentFaulty
  \/ DeleteEventFaulty
  \/ PruneExpiredFaulty
  \/ PurgeAllFaulty

SpecFaults == Init /\ [][NextFaults]_vars

(***************************************************************************)
(* Reads.  A read leaves every table and the caches as they are and        *)
(* records what it returned.                                               *)
(***************************************************************************)
\* the events the reading callers add: two on one domain, one on a
\* subdomain of it, with different browser labels and sources
ReadInputs ==
  { [Ev("https://example.com/a", "Golang Docs", "", "manual", FALSE)
       EXCEPT !.Browser = "chrome"],
    [Ev("https://example.com/c", "Go Programming", "", "extension", FALSE)
       EXCEPT !.Browser = "firefox"],
    Ev("https://blog.example.com/go", "Rust Language", "", "manual", FALSE) }

ReadTimestamps == {0, MaxTick}

ReadCall(op, err, ev, id, out) ==
  /\ last' = [Call(op, Ret(err, ev, DB, 0), id, <<>>, ZeroTime)
                EXCEPT !.out = out]
  /\ UNCHANGED <<events, content, events_fts, ftsExists, exclusions,
                 schema_migrations, schema, journal_mode,
                 domainExclusions, regexExclusions, closed, cmd, running>>

GetEventCall ==
  \E id \in IDs :
    \E res \in {GetEvent(id)} : ReadCall("GetEvent", res.err, res.ev, id, <<>>)

GetContentCall ==
  \E id \in IDs :
    \E res \in {GetContent(id)} :
      ReadCall("GetContent", res.err, NoEvent, id, res.c)

AddEventRead == AddEventCall(ReadInputs, ReadTimestamps, {"none"})
AddEventWithContentRead ==
  AddEventWithContentCall(ReadInputs, ReadTimestamps, {"none"})

\* the queries of the search command
ReadQueries ==
  { NoQuery,
    SearchQuery("", "example.com"), SearchQuery("", "blog.example.com"),
    SearchQuery("go", ""), SearchQuery("GOL prog", ""),
    SearchQuery("example.com", ""), SearchQuery("lang", "example.com"),
    SearchQuery(" ", ""), SearchQuery("\"", ""),
    [NoQuery EXCEPT !.Browser = "chrome"],
    [SearchQuery("go", "") EXCEPT !.Browser = "chrome"],
    [NoQuery EXCEPT !.HasBody = TRUE],
    [NoQuery EXCEPT !.HasEmbedding = TRUE],
    [NoQuery EXCEPT !.Limit = 1],
    [NoQuery EXCEPT !.Limit = 1, !.Offset = 1] }

SearchEventsOf(queries) ==
  \E q \in queries :
   \E res \in {SearchEvents(q)} :
     /\ last' = [Call("SearchEvents", Ret(res.err, NoEvent, DB, 0), "",
                       <<>>, ZeroTime)
                   EXCEPT !.out = res.list, !.q = q]
     /\ UNCHANGED <<events, content, events_fts, ftsExists, exclusions,
                    schema_migrations, schema, journal_mode,
                    domainExclusions, regexExclusions, closed, cmd, running>>

SearchEventsCall == SearchEventsOf(ReadQueries)

NextReads ==
  \/ AddEventRead
  \/ AddEventWithContentRead
  \/ DeleteEvent
  \/ PruneExpired
  \/ PurgeAll
  \/ GetEventCall
  \/ GetContentCall
  \/ SearchEventsCall

SpecReads == Init /\ [][NextReads]_vars

(***************************************************************************)
(* Migration: a database file from its creation on.  Run may fail at any   *)
(* statement; a store is opened only on a migrated file, and events are    *)
(* added only through an opened store (events_fts exists once              *)
(* NewSQLiteStore has returned).                                           *)
(***************************************************************************)
\* rules a user stores: is_default keeps its DEFAULT 0
UserRules == { Rule("domain", "example.com"), Rule("domain", "chase.com") }

InitMigrate ==
  /\ events = EmptyFile.events
  /\ content = EmptyFile.content
  /\ events_fts = EmptyFile.fts
  /\ ftsExists = EmptyFile.ftsExists
  /\ exclusions = EmptyFile.exclusions
  /\ schema_migrations = EmptyFile.schema_migrations
  /\ schema = EmptyFile.schema
  /\ journal_mode = EmptyFile.journal_mode
  /\ domainExclusions = {}
  /\ regexExclusions = {}
  /\ closed = FALSE
  /\ cmd = NoCommand
  /\ running = NoneRunning
  /\ last = [op |-> "sql.Open", err |-> "nil", ev |-> NoEvent,
             n |-> 0, id |-> "", body |-> <<>>, olderThan |-> ZeroTime,
             removed |-> [events |-> 0, content |-> 0, fts |-> 0],
             out |-> <<>>, q |-> NoQuery]

RunCall ==
  \E fail \in RunFails :
   \E res \in {RunResult(DB, fail)} :
     /\ SetDB(res.db)
     /\ last' = Call("Run", res, "", <<>>, ZeroTime)
     /\ UNCHANGED <<domainExclusions, regexExclusions, closed, cmd, running>>

\* INSERT INTO exclusions (rule_type, rule_value) under
\* UNIQUE(rule_type, rule_value)
AddRuleCall(rules) ==
  /\ "exclusions" \in schema
  /\ \E rule \in rules :
      \E res \in {IF ruleExists(exclusions, rule)
                  THEN Ret("UNIQUE constraint failed", NoEvent, DB, 0)
                  ELSE Ret("nil", NoEvent,
                           [DB EXCEPT !.exclusions =
                              @ \cup {RuleRow(@, rule, FALSE)}], 1)} :
        /\ SetDB(res.db)
        /\ last' = Call("AddUserRule", res, "", <<>>, ZeroTime)
        /\ UNCHANGED <<domainExclusions, regexExclusions, closed, cmd, running>>

AddUserRule == AddRuleCall(UserRules)

OpenMigrated == InitialMigration \in schema_migrations /\ NewSQLiteStore

AddEventMigrated ==
  ftsExists /\ AddEventCall(FaultInputs, FaultTimestamps, {"none"})

AddEventWithContentMigrated ==
  ftsExists /\ AddEventWithContentCall(FaultInputs, FaultTimestamps, {"none"})

NextMigrate ==
  \/ RunCall
  \/ AddUserRule
  \/ OpenMigrated
  \/ AddEventMigrated
  \/ AddEventWithContentMigrated

SpecMigrate == InitMigrate /\ [][NextMigrate]_vars

(***************************************************************************)
(* Properties.                                                             *)
(***************************************************************************)
AddOps == {"AddEvent", "AddEventWithContent"}

Tables == <<events, content, events_fts, ftsExists>>

\* the host of a URL is excluded by the cached rules: an exact-domain rule
\* equals it, or it ends as a pattern rule ".*" LITERAL "$" requires
HostExcluded(url) ==
  LET host == parseHostname(url)
  IN  \/ host \in domainExclusions
      \/ \E re \in regexExclusions : HasSuffix(host, re.suffix)

\* C1: an add of an event whose URL host is excluded by the cached rules
\* returns no error, leaves the ID empty and writes nothing to events,
\* content or the index; and no SearchEvents result ever holds an event
\* whose URL host is excluded.
C1_ExcludedAddStep ==
  (last'.op \in AddOps /\ HostExcluded(last'.ev.URL))
    => /\ last'.err = "nil"
       /\ last'.ev.ID = ""
       /\ UNCHANGED Tables

C1_ExcludedAbsentFromSearch ==
  \A q \in Queries :
    \A e \in Listed(SearchEvents(q).list) : ~HostExcluded(e.URL)

C1_ExcludedSilentlySkipped ==
  [][C1_ExcludedAddStep]_vars /\ []C1_ExcludedAbsentFromSearch

\* an event excluded by a pattern rule only was offered to a store that
\* holds events a search returns
C1_Witness ==
  /\ last.op \in AddOps
  /\ HostExcluded(last.ev.URL)
  /\ parseHostname(last.ev.URL) \notin domainExclusions
  /\ SearchEvents(SearchQuery("bank", "")).list # <<>>

\* C2: no row of events has a domain for which isExcluded is true under the
\* cached rules.
C2_NoExcludedDomainStored == \A e \in events : ~isExcluded(e.domain)

\* a stored event whose caller-supplied Domain was an excluded one and whose
\* URL names an excluded domain in its path
C2_Witness ==
  \E e \in events :
    /\ e.url = "http://a.com:8080/chase.com"
    /\ e.domain = "a.com"
    /\ e.has_body

\* C3: every entry of events_fts has an event_id that identifies a row of
\* events, also after calls in which a statement failed.
C3_NoOrphanIndexEntry ==
  \A f \in BagToSet(events_fts) : f.event_id \in idsOf(events)

\* DeleteEvent removed the index entry and then failed to delete the event
C3_Witness ==
  /\ last.op = "DeleteEvent"
  /\ last.err = "delete event"
  /\ last.removed.fts = 1
  /\ events_fts # EmptyBag

\* C4: AddEventWithContent is all-or-nothing.  When it returns nil for a
\* stored event, the event row with has_body, the content row with the byte
\* length of the body and the index entry exist for the new ID; when it
\* returns an error, the database is as it was before the call.
C4_AllOrNothingStep ==
  (last'.op = "AddEventWithContent")
    => /\ (last'.err = "nil" /\ last'.ev.ID # "")
            => /\ \E e \in events' : e.id = last'.ev.ID /\ e.has_body
               /\ \E c \in content' :
                    /\ c.event_id = last'.ev.ID
                    /\ c.body = last'.body
                    /\ c.byte_size = byteLen(last'.body)
               /\ \E f \in BagToSet(events_fts') : f.event_id = last'.ev.ID
       /\ (last'.err # "nil") => UNCHANGED Tables

C4_AddEventWithContentAtomic == [][C4_AllOrNothingStep]_vars

\* the commit failed after the three inserts and nothing of them is stored
C4_Witness ==
  /\ last.op = "AddEventWithContent"
  /\ last.err = "commit"
  /\ last.ev.ID \notin idsOf(events)

\* C5: AddEvent, DeleteEvent, PruneExpired and PurgeAll leave events,
\* content and the index as they were when one of their statements fails.
C5_RollbackStep ==
  (/\ last'.op \in {"AddEvent", "DeleteEvent", "PruneExpired", "PurgeAll"}
   /\ last'.err # "nil")
    => UNCHANGED Tables

C5_FailedOperationRollsBack == [][C5_RollbackStep]_vars

\* C6: every content row belongs to a row of events; after DeleteEvent
\* returns nil, GetContent for that ID fails with not-found.
C6_ContentNeverOutlivesEvent ==
  /\ \A c \in content : c.event_id \in idsOf(events)
  /\ (last.op = "DeleteEvent" /\ last.err = "nil")
       => GetContent(last.id).err = "not found"

\* DeleteEvent removed an event that had content
C6_Witness ==
  /\ last.op = "DeleteEvent"
  /\ last.err = "nil"
  /\ last.removed.content = 1

\* C7: PruneExpired(cutoff) removes exactly the events captured strictly
\* before cutoff, whatever the distance between the two instants, keeps the
\* others with their content and index entries, and returns the number of
\* events removed.
C7_PruneStep ==
  (last'.op = "PruneExpired" /\ last'.err = "nil")
    => /\ events' = {e \in events : ~(e.at < last'.olderThan)}
       /\ content' = {c \in content : c.event_id \in idsOf(events')}
       /\ events_fts' = ftsWithout(events_fts, idsOf(events \ events'))
       /\ last'.n = Cardinality(events \ events')

C7_PruneRemovesExactlyBefore == [][C7_PruneStep]_vars

\* C8: when no stored event is before the cutoff, PruneExpired returns 0
\* and changes nothing; after a PruneExpired that returned nil no stored
\* event is before its cutoff, so the same call made again returns 0 and
\* leaves the state as the first call left it.
C8_NothingQualifiesStep ==
  (/\ last'.op = "PruneExpired"
   /\ \A e \in events : e.ts >= last'.olderThan \div TicksPerSecond)
    => /\ last'.n = 0
       /\ UNCHANGED Tables

C8_NothingLeftToPrune ==
  (last.op = "PruneExpired" /\ last.err = "nil")
    => \A e \in events : e.ts >= last.olderThan \div TicksPerSecond

C8_PruneIdempotent ==
  [][C8_NothingQualifiesStep]_vars /\ []C8_NothingLeftToPrune

\* PruneExpired ran on stored events, none before the cutoff
C8_Witness ==
  /\ last.op = "PruneExpired"
  /\ last.err = "nil"
  /\ last.n = 0
  /\ last.removed.events = 0
  /\ events # {}

\* C9: after PurgeAll returns nil, events, content and the index are empty,
\* and the exclusions and schema_migrations rows are those from before.
C9_PurgeStep ==
  (last'.op = "PurgeAll" /\ last'.err = "nil")
    => /\ events' = {}
       /\ content' = {}
       /\ events_fts' = EmptyBag
       /\ ftsExists'
       /\ exclusions' = exclusions
       /\ schema_migrations' = schema_migrations

C9_PurgeEmptiesData == [][C9_PurgeStep]_vars

\* PurgeAll removed events, content and index entries
C9_Witness ==
  /\ last.op = "PurgeAll"
  /\ last.err = "nil"
  /\ last.removed.events > 0
  /\ last.removed.content > 0
  /\ last.removed.fts > 0
  /\ Cardinality(exclusions) = Len(defaults)

\* C10: after AddEvent stores an event, GetEvent with the populated ID
\* returns the URL, title and source of the input and the host of the URL
\* as the domain.
C10_AddGetRoundTrip ==
  (last.op = "AddEvent" /\ last.err = "nil" /\ last.ev.ID # "")
    => LET got == GetEvent(last.ev.ID)
       IN  /\ got.err = "nil"
           /\ got.ev.ID = last.ev.ID
           /\ got.ev.URL = last.ev.URL
           /\ got.ev.Title = last.ev.Title
           /\ got.ev.Source = last.ev.Source
           /\ got.ev.Domain = parseHostname(last.ev.URL)

\* AddEvent stored an event whose URL carries a port and whose caller had
\* set another Domain
C10_Witness ==
  /\ last.op = "AddEvent"
  /\ last.err = "nil"
  /\ last.ev.URL = "http://a.com:8080/chase.com"
  /\ GetEvent(last.ev.ID).ev.Domain = "a.com"

\* C11: an add of a non-excluded event writes into the event an ID that no
\* stored event carries and that differs from the ID the add before it
\* wrote; no two rows of events share an ID.
C11_FreshIDStep ==
  (last'.op \in AddOps /\ last'.ev.ID # "")
    => /\ last'.ev.ID \notin idsOf(events)
       /\ (last.op \in AddOps /\ last.ev.ID # "")
            => last'.ev.ID # last.ev.ID

C11_UniqueRowIDs == \A a \in events, b \in events : a.id = b.id => a = b

C11_DistinctIdentifiers == [][C11_FreshIDStep]_vars /\ []C11_UniqueRowIDs

\* C12: DeleteEvent(id) returns not-found exactly when no row of events has
\* the ID and then changes nothing; when the row exists it returns nil,
\* removes that row and its index entry and no other, and GetEvent(id) then
\* fails with not-found.
C12_DeleteStep ==
  (last'.op = "DeleteEvent")
    => \E id \in IDs :
         /\ id = last'.id
         /\ (last'.err = "not found") <=> (id \notin idsOf(events))
         /\ (id \notin idsOf(events)) => UNCHANGED Tables
         /\ (id \in idsOf(events))
              => /\ last'.err = "nil"
                 /\ events' = {e \in events : e.id # id}
                 /\ BagToSet(events_fts') =
                      {f \in BagToSet(events_fts) : f.event_id # id}
                 /\ \A f \in BagToSet(events_fts') :
                      CopiesIn(f, events_fts') = CopiesIn(f, events_fts)
                 /\ GetEvent(id)'.err = "not found"

C12_DeleteEventNotFound == [][C12_DeleteStep]_vars

\* DeleteEvent removed one event and its index entry and another event
\* stays with its index entry
C12_Witness ==
  /\ last.op = "DeleteEvent"
  /\ last.err = "nil"
  /\ last.removed.events = 1
  /\ last.removed.fts = 1
  /\ Cardinality(events) = 1
  /\ events_fts # EmptyBag

\* C13: GetContent(id) fails with not-found exactly when content has no row
\* for id, also when the event exists without content; GetEvent(id) fails
\* with not-found exactly when events has no row for id; a read that
\* succeeds returns the stored row, and neither read changes a table.
C13_ReadStep ==
  /\ (last'.op = "GetContent")
       => /\ last'.err \in {"nil", "not found"}
          /\ (last'.err = "not found")
               <=> (last'.id \notin {c.event_id : c \in content})
          /\ (last'.err = "nil")
               => \E c \in content :
                    /\ c.event_id = last'.id
                    /\ last'.out = [EventID |-> c.event_id, Body |-> c.body]
          /\ UNCHANGED <<Tables, exclusions, schema_migrations>>
  /\ (last'.op = "GetEvent")
       => /\ last'.err \in {"nil", "not found"}
          /\ (last'.err = "not found") <=> (last'.id \notin idsOf(events))
          /\ (last'.err = "nil") => last'.ev.ID = last'.id
          /\ UNCHANGED <<Tables, exclusions, schema_migrations>>

C13_ReadsNotFound == [][C13_ReadStep]_vars

\* GetContent failed with not-found for an event stored without content
C13_Witness ==
  /\ last.op = "GetContent"
  /\ last.err = "not found"
  /\ last.id \in idsOf(events)
  /\ GetEvent(last.id).err = "nil"

\* C14: after a successful Run the database holds exactly one
\* schema_migrations row per migration and exactly the 25 default rules,
\* with no (rule_type, rule_value) pair stored twice; a Run on a migrated
\* database fails only in its pragmas or its checks, never in the migration,
\* and leaves events, content, the index and every exclusion rule, the
\* user's included, as they were.
C14_NoDuplicateRules ==
  \A r1, r2 \in exclusions :
    (r1.rule_type = r2.rule_type /\ r1.rule_value = r2.rule_value) => r1 = r2

C14_AfterRun ==
  (last.op = "Run" /\ last.err = "nil")
    => /\ schema_migrations = {InitialMigration}
       /\ Cardinality({r \in schema_migrations : r.version = 1}) = 1
       /\ Cardinality({r \in exclusions : r.is_default}) = 25
       /\ {Rule(r.rule_type, r.rule_value) :
             r \in {x \in exclusions : x.is_default}}
            = {defaults[i] : i \in 1..Len(defaults)}
       /\ C14_NoDuplicateRules

C14_RerunStep ==
  (last'.op = "Run" /\ InitialMigration \in schema_migrations)
    => /\ last'.err \in {"nil", "set WAL mode", "enable foreign keys",
                         "create schema_migrations table", "check migration"}
       /\ UNCHANGED <<Tables, exclusions, schema_migrations, schema>>

C15_ApplyErrors ==
  {"apply migration: " \o e :
     e \in {"begin transaction", "apply", "record migration", "commit"}}

\* C15 (as stated): when a statement of the migration or the insert of its
\* version record fails, Run returns an error and the database is in the
\* state it had before Run was called.
C15_FailedRunRestoresStep ==
  (last'.op = "Run" /\ last'.err \in C15_ApplyErrors)
    => UNCHANGED <<Tables, exclusions, schema_migrations, schema,
                   journal_mode>>

C15_FailedRunRestoresAll == [][C15_FailedRunRestoresStep]_vars

\* C15: when a statement of the migration or the insert of its version
\* record fails, Run returns an error, none of the migration's tables,
\* indexes and seed rows persist, its version is not recorded, every row
\* stored before is as it was, and a later Run in which no statement fails
\* applies the migration; what Run does before the transaction (WAL mode,
\* the schema_migrations table) stays.
C15_FailedMigrationStep ==
  (last'.op = "Run" /\ last'.err \in C15_ApplyErrors)
    => /\ UNCHANGED <<Tables, exclusions, schema_migrations>>
       /\ schema' \ {"schema_migrations"} = schema \ {"schema_migrations"}
       /\ InitialMigration \notin schema_migrations'
       /\ ~isApplied(DB', InitialMigration.version)
       /\ \E retry \in {RunResult(DB', "none")} :
            /\ retry.err = "nil"
            /\ retry.db.schema_migrations = {InitialMigration}
            /\ V001Tables \cup V001Indexes \subseteq retry.db.schema

C15_MigrationAtomic == [][C15_FailedMigrationStep]_vars

\* Run failed inside the migration on a new file: the file holds the empty
\* tracking table and is in WAL mode, and nothing of the migration
C15_Witness ==
  /\ last.op = "Run"
  /\ last.err \in C15_ApplyErrors
  /\ schema = {"schema_migrations"}
  /\ journal_mode = "wal"
  /\ exclusions = {}
  /\ schema_migrations = {}

\* C16: SearchEvents with empty free-text and a domain filter returns nil
\* and only stored events whose domain equals the filter exactly, each once;
\* from offset 0 it returns all of them when they fit within the limit; the
\* list is ordered by timestamp, most recent first.
C16_DomainStep ==
  (last'.op = "SearchEvents" /\ last'.q.Query = "" /\ last'.q.Domain # "")
    => \E out \in {last'.out} :
        \E want \in {{e \in events :
                        /\ e.domain = last'.q.Domain
                        /\ last'.q.Source \in {"", e.source}
                        /\ last'.q.Since = ZeroTime
                        /\ last'.q.Until = ZeroTime}} :
          /\ last'.err = "nil"
          /\ \A k \in 1..Len(out) :
               /\ out[k].Domain = last'.q.Domain
               /\ \E e \in want : e.id = out[k].ID /\ e.url = out[k].URL
               /\ \A j \in 1..Len(out) : out[j].ID = out[k].ID => j = k
          /\ (last'.q.Offset = 0
                /\ Cardinality(want)
                     <= (IF last'.q.Limit <= 0 THEN 50 ELSE last'.q.Limit))
               => {out[k].ID : k \in 1..Len(out)} = idsOf(want)
          /\ \A k \in 1..(Len(out) - 1) :
               out[k].Timestamp >= out[k + 1].Timestamp

C17_TokenMatches(w, text) ==
  \E runs \in {tokenizeFrom(w, 1, "")} :
   \E words \in {tokenizeFrom(text, 1, "")} :
     /\ runs # <<>>
     /\ \E i \in 1..Len(words) :
          /\ i + Len(runs) - 1 <= Len(words)
          /\ \A j \in 1..(Len(runs) - 1) : words[i + j - 1] = runs[j]
          /\ HasPrefix(words[i + Len(runs) - 1], runs[Len(runs)])

\* the events a page of the given rows may hold: all of them from offset 0
\* when they fit within the limit
C17_Returned(q, out, want) ==
  /\ {out[k].ID : k \in 1..Len(out)} \subseteq idsOf(want)
  /\ \A j, k \in 1..Len(out) : out[j].ID = out[k].ID => j = k
  /\ (q.Offset <= 0
        /\ Cardinality(want) <= (IF q.Limit <= 0 THEN 50 ELSE q.Limit))
       => {out[k].ID : k \in 1..Len(out)} = idsOf(want)

\* C17 (as stated): SearchEvents with non-empty free-text returns exactly
\* the stored events whose indexed title or URL holds a word that has some
\* whitespace-separated query token as a prefix and that satisfy every
\* other filter of the query.  A word is a maximal run of letters and
\* digits; only a token made of letters and digits alone can begin one.
C17_WordPrefixStep ==
  (last'.op = "SearchEvents" /\ last'.q.Query # "")
    => \E q \in {last'.q} :
        C17_Returned(q, last'.out,
          {e \in events :
             /\ \E f \in BagToSet(events_fts) :
                  /\ f.event_id = e.id
                  /\ \E w \in Listed(fieldsFrom(q.Query, 1, "")) :
                      \E word \in Listed(tokenizeFrom(f.title, 1, ""))
                                   \cup Listed(tokenizeFrom(f.url, 1, "")) :
                       \E runs \in {tokenizeFrom(w, 1, "")} :
                         /\ Len(runs) = 1
                         /\ Len(runs[1]) = Len(w)
                         /\ HasPrefix(word, runs[1])
             /\ q.Domain \in {"", e.domain}
             /\ q.Source \in {"", e.source}
             /\ q.Browser \in {"", e.browser}
             /\ q.HasBody => e.has_body
             /\ q.HasEmbedding => e.has_embedding})

C17_FreeTextStep ==
  (/\ last'.op = "SearchEvents"
   /\ fieldsFrom(last'.q.Query, 1, "") # <<>>
   /\ Index(last'.q.Query, "\"") = 0)
    => \E q \in {last'.q} :
        /\ last'.err = "nil"
        /\ C17_Returned(q, last'.out,
             {e \in events :
                /\ \E f \in BagToSet(events_fts) :
                     /\ f.event_id = e.id
                     /\ \E w \in Listed(fieldsFrom(q.Query, 1, "")) :
                          \/ C17_TokenMatches(w, f.title)
                          \/ C17_TokenMatches(w, f.url)
                /\ q.Domain \in {"", e.domain}
                /\ q.Source \in {"", e.source}
                /\ q.Since = ZeroTime \/ e.ts >= formatRFC3339(q.Since)
                /\ q.Until = ZeroTime \/ e.ts <= formatRFC3339(q.Until)})

C18_Filters ==
  {NoQuery, SearchQuery("", "example.com"), SearchQuery("go", "")}

C18_Matching(q) ==
  {e \in events :
     /\ q.Domain \in {"", e.domain}
     /\ q.Query # ""
          => \E f \in BagToSet(events_fts) :
               /\ f.event_id = e.id
               /\ \E w \in Listed(fieldsFrom(q.Query, 1, "")) :
                    C17_TokenMatches(w, f.title) \/ C17_TokenMatches(w, f.url)}

C18_IDs(list) == {list[k].ID : k \in 1..Len(list)}

\* C18: for fixed stored rows and fixed filters the pages with limit L at
\* offsets 0, L, 2L, ... hold no event twice, within a page or across
\* pages, and together hold every matching event, also when matching events
\* carry the same stored timestamp; a SearchEvents call repeated with the
\* same query returns the same error and the same list.
C18_PagesPartition ==
  \A q \in C18_Filters : \A L \in 1..NumIDs :
    \E pages \in {[k \in 0..NumIDs |->
                     SearchEvents([q EXCEPT !.Limit = L,
                                            !.Offset = k * L])]} :
      /\ \A k \in 0..NumIDs :
           /\ pages[k].err = "nil"
           /\ Len(pages[k].list) <= L
           /\ Cardinality(C18_IDs(pages[k].list)) = Len(pages[k].list)
      /\ \A j, k \in 0..NumIDs :
           j # k => C18_IDs(pages[j].list) \cap C18_IDs(pages[k].list) = {}
      /\ UNION {C18_IDs(pages[k].list) : k \in 0..NumIDs}
           = idsOf(C18_Matching(q))

C18_RepeatStep ==
  (last.op = "SearchEvents" /\ last'.op = "SearchEvents" /\ last'.q = last.q)
    => last'.out = last.out /\ last'.err = last.err

C19_NoErrorStep == (last'.op = "SearchEvents") => last'.err = "nil"

C19_SearchNeverFails == [][C19_NoErrorStep]_vars

\* C20: in both search paths every returned event has the browser label the
\* query carries and has the flag set for which the query carries a
\* presence filter (has-body, has-embedding).
C20_FilterStep ==
  (last'.op = "SearchEvents" /\ last'.err = "nil")
    => \A k \in 1..Len(last'.out) :
         /\ last'.q.Browser \in {"", last'.out[k].Browser}
         /\ last'.q.HasBody => last'.out[k].HasBody
         /\ last'.q.HasEmbedding => last'.out[k].HasEmbed

C20_AllFiltersApplied == [][C20_FilterStep]_vars

\* domains the rules are asked about: rule values, their sub- and parent
\* domains, other letter case, names a pattern ends
C21_Domains ==
  {"chase.com", "www.chase.com", "hase.com", "chase.co", "CHASE.com",
   "a.com", "site.xxx", "xxx", ".xxx", "pornhub.com", "mypornhub.com",
   "pornhub.com.au", "irs.gov", ""}

\* C21: isExcluded(domain) holds exactly when a cached domain rule equals
\* the domain or the domain ends as a cached pattern rule requires; an add
\* whose URL host is not excluded stores the event, whatever its path holds.
C21_ExactOrPattern ==
  \A d \in C21_Domains :
    isExcluded(d)
      <=> \/ \E rule \in domainExclusions : rule = d
          \/ \E re \in regexExclusions :
               /\ Len(re.suffix) <= Len(d)
               /\ SubSeq(d, Len(d) - Len(re.suffix) + 1, Len(d)) = re.suffix

C21_HostOnlyStep ==
  (last'.op \in AddOps /\ last'.err = "nil" /\ ~HostExcluded(last'.ev.URL))
    => /\ last'.ev.ID # ""
       /\ \E row \in events' : row.id = last'.ev.ID /\ row.url = last'.ev.URL

C21_IsExcludedOnHost == []C21_ExactOrPattern /\ [][C21_HostOnlyStep]_vars

\* an event whose path names an excluded domain, on a host that is not
\* excluded, was stored
C21_Witness ==
  /\ last.op \in AddOps
  /\ last.err = "nil"
  /\ last.ev.URL = "http://a.com:8080/chase.com"
  /\ \E row \in events : row.id = last.ev.ID /\ row.domain = "a.com"
  /\ isExcluded("chase.com")
  /\ isExcluded("site.xxx")
  /\ ~isExcluded("www.chase.com")

(***************************************************************************)
(* The prune command.  Execute counts, decides and prunes in separate      *)
(* calls on the store; other processes add and delete events in between.   *)
(***************************************************************************)
RECURSIVE ToLower(_)
\* strings.ToLower
ToLower(s) == IF s = "" THEN "" ELSE fold(Char(s, 1)) \o ToLower(Tail(s))

WhiteSpace == {" ", "\t", "\n", "\r"}

RECURSIVE TrimLeft(_)
TrimLeft(s) ==
  IF s # "" /\ Char(s, 1) \in WhiteSpace THEN TrimLeft(Tail(s)) ELSE s

RECURSIVE TrimRight(_)
TrimRight(s) ==
  IF s # "" /\ Char(s, Len(s)) \in WhiteSpace
  THEN TrimRight(SubSeq(s, 1, Len(s) - 1)) ELSE s

\* strings.TrimSpace
TrimSpace(s) == TrimRight(TrimLeft(s))

\* the query of CountExpired that is made to fail
CountExpiredFails == {"none", "count"}

\* CountExpired: the number of events with a timestamp before cutoff
CountExpired(d, cutoff, fail) ==
  IF fail = "count" THEN Ret("count", NoEvent, d, 0)
  ELSE Ret("nil", NoEvent, d,
           Cardinality({r \in d.events : r.ts < formatRFC3339(cutoff)}))

\* lines typed at the prompt "Proceed? [y/N] "
PruneAnswers == {"y", "yes", "Y", " Yes ", "n", "", "yess", "ye s"}

\* the prompt accepts any line but "n"
answerNotNo(answer) == TrimSpace(ToLower(answer)) # "n"

\* answer != "y" && answer != "yes", negated
answerYes(answer) ==
  LET a == TrimSpace(ToLower(answer)) IN a = "y" \/ a = "yes"

\* a step of Execute that calls nothing on the store
CommandStep ==
  /\ last' = Call("PruneCommand", Ret("nil", NoEvent, DB, 0), "", <<>>,
                  cmd.cutoff)
  /\ UNCHANGED <<events, content, events_fts, ftsExists, exclusions,
                 schema_migrations, schema, journal_mode,
                 domainExclusions, regexExclusions, closed, running>>

\* Execute up to the count: the flags, the cutoff, store.CountExpired
PruneCount ==
  /\ cmd.pc \in {"idle", "returned"}
  /\ \E dryRun \in BOOLEAN, force \in BOOLEAN, cutoff \in Ticks,
        fail \in CountExpiredFails :
      \E res \in {CountExpired(DB, cutoff, fail)} :
        /\ cmd' = [NoCommand EXCEPT
                     !.name = "prune", !.DryRun = dryRun, !.Force = force, !.cutoff = cutoff,
                     !.count = res.n,
                     !.pc = IF res.err = "nil" THEN "counted" ELSE "returned",
                     !.err = IF res.err = "nil" THEN "nil"
                             ELSE "count expired events",
                     !.trace = IF res.err = "nil" THEN <<"counted">>
                               ELSE <<"failed">>]
        /\ last' = Call("CountExpired", res, "", <<>>, cutoff)
        /\ UNCHANGED <<events, content, events_fts, ftsExists, exclusions,
                       schema_migrations, schema, journal_mode,
                       domainExclusions, regexExclusions, closed, running>>

\* Execute from the count to the prune: nothing to prune, the dry run, the
\* confirmation prompt
PruneDecide ==
  /\ cmd.pc = "counted"
  /\ \/ /\ cmd.count = 0
        /\ cmd' = [cmd EXCEPT !.pc = "returned",
                              !.trace = Append(@, "reported")]
     \/ /\ cmd.count # 0
        /\ cmd.DryRun
        /\ cmd' = [cmd EXCEPT !.pc = "returned",
                              !.trace = Append(@, "reported")]
     \/ /\ cmd.count # 0
        /\ ~cmd.DryRun
        /\ cmd.Force
        /\ cmd' = [cmd EXCEPT !.pc = "confirmed",
                              !.trace = Append(@, "confirmed")]
     \/ /\ cmd.count # 0
        /\ ~cmd.DryRun
        /\ ~cmd.Force
        /\ \E answer \in PruneAnswers :
             cmd' = IF answerYes(answer)
                    THEN [cmd EXCEPT !.answer = answer, !.pc = "confirmed",
                                     !.trace = Append(@, "confirmed")]
                    ELSE [cmd EXCEPT !.answer = answer, !.pc = "returned",
                                     !.trace = Append(@, "aborted")]
  /\ CommandStep

\* Execute from store.PruneExpired to the report
PruneExecute ==
  /\ cmd.pc = "confirmed"
  /\ \E fail \in PruneExpiredFails :
      \E res \in {PruneExpiredResult(DB, cmd.cutoff, fail)} :
        /\ SetDB(res.db)
        /\ last' = Call("PruneExpired", res, "", <<>>, cmd.cutoff)
        /\ cmd' = IF res.err = "nil"
                  THEN [cmd EXCEPT !.pc = "returned", !.pruned = res.n,
                                   !.trace = @ \o <<"executed", "reported">>]
                  ELSE [cmd EXCEPT !.pc = "returned", !.err = "prune failed",
                                   !.trace = Append(@, "failed")]
        /\ UNCHANGED <<domainExclusions, regexExclusions, closed, running>>

\* events other processes add meanwhile
PruneInputs ==
  { Ev("https://example.com/article", "Test Article", "", "manual", FALSE) }

AddEventPrune == AddEventCall(PruneInputs, FaultTimestamps, {"none"})

NextPrune ==
  \/ PruneCount
  \/ PruneDecide
  \/ PruneExecute
  \/ AddEventPrune
  \/ DeleteEvent

SpecPrune == Init /\ [][NextPrune]_vars

(***************************************************************************)
(* The purge command: Execute as one step on a migrated database.          *)
(***************************************************************************)
\* lines typed at the prompt 'Type "PURGE" to confirm: '
PurgeLines == {"PURGE", " PURGE ", "PURGE\t", "purge", "Purge", "PURGE!", "P URGE", "yes", ""}

\* input != "PURGE" on the lowered line, negated
purgeConfirmedAnyCase(line) == ToLower(TrimSpace(line)) = "purge"

\* input != "PURGE", negated
purgeConfirmed(line) == TrimSpace(line) = "PURGE"

\* Execute returns before it opens the store
PurgeRefused(c, err) ==
  /\ cmd' = [c EXCEPT !.pc = "returned", !.err = err, !.trace = <<"failed">>]
  /\ last' = Call("PurgeCommand", Ret(err, NoEvent, DB, 0), "", <<>>,
                  ZeroTime)
  /\ UNCHANGED <<events, content, events_fts, ftsExists, exclusions,
                 schema_migrations, schema, journal_mode,
                 domainExclusions, regexExclusions, closed, running>>

\* Execute: the flags, the prompt, NewSQLiteStore on the database,
\* store.PurgeAll; the store of the command is closed when Execute returns
PurgeCommandCall ==
  /\ cmd.pc \in {"idle", "returned"}
  /\ \E all \in BOOLEAN, force \in BOOLEAN, eof \in BOOLEAN,
        line \in PurgeLines, fail \in PurgeAllFails :
      \E c \in {[NoCommand EXCEPT !.name = "purge", !.All = all,
                                  !.Force = force, !.eof = eof,
                                  !.answer = line]} :
        /\ (~all \/ force) => (~eof /\ line = "")
        /\ eof => line = ""
        /\ (~all \/ (~force /\ (eof \/ ~purgeConfirmed(line)))) => fail = "none"
        /\ IF ~all
           THEN PurgeRefused(c, "purge requires --all flag for safety")
           ELSE IF ~force /\ eof
             THEN PurgeRefused(c, "aborted: no input received")
           ELSE IF ~force /\ ~purgeConfirmed(line)
             THEN PurgeRefused(c, "aborted: confirmation text did not match")
           ELSE \E res \in {PurgeAllResult(initFTS(DB, FALSE).db, fail)} :
                  /\ SetDB(res.db)
                  /\ last' = Call("PurgeAll", res, "", <<>>, ZeroTime)
                  /\ cmd' = IF res.err = "nil"
                            THEN [c EXCEPT !.pc = "returned",
                                           !.trace = <<"confirmed", "executed",
                                                       "reported">>]
                            ELSE [c EXCEPT !.pc = "returned",
                                           !.err = "purge failed",
                                           !.trace = <<"confirmed", "failed">>]
                  /\ UNCHANGED <<domainExclusions, regexExclusions, closed, running>>

AddEventPurge == AddEventCall(FaultInputs, FaultTimestamps, {"none"})
AddEventWithContentPurge ==
  AddEventWithContentCall(FaultInputs, FaultTimestamps, {"none"})

NextPurge ==
  \/ PurgeCommandCall
  \/ AddEventPurge
  \/ AddEventWithContentPurge

SpecPurge == Init /\ [][NextPurge]_vars

(***************************************************************************)
(* The add command: executeWithStore as one step on the open store.        *)
(***************************************************************************)
\* values of --url
AddURLs ==
  { "https://example.com/both", "https://chase.com/login",
    "https://site.xxx/page", "http://a.com:8080/chase.com",
    "not-a-valid-url", "/relative/path", "mailto:user@example.com" }

\* time.Now() when the command runs
AddTimestamps == {0}

\* the statement of the store that is made to fail
AddCommandFails == {"none", "event"}

\* values of --body-file
BodyFiles == {"", "/tmp/nonexistent.md"}

\* err != nil alone: a URL that parses is taken whatever its host
validURLUnlessError(rawURL) == ~urlParseRequestURI(rawURL).err

\* err != nil || parsed.Host == "", negated
validURL(rawURL) ==
  LET parsed == urlParseRequestURI(rawURL)
  IN  ~parsed.err /\ parsed.host # ""

\* SQLiteStore.IsExcluded
IsExcluded(domain) == isExcluded(domain)

\* fmt.Sprintf("%x", sha256.Sum256([]byte(body)))
contentHash(body) == <<"sha256", body>>

\* the storage.Event the command builds
addEvent(c, body, now) ==
  [ID |-> "", URL |-> c.URL, Title |-> "Test Page", Domain |-> "",
   Timestamp |-> now, Source |-> "manual", Browser |-> "manual",
   ContentHash |-> IF body # <<>> THEN contentHash(body) ELSE "",
   HasBody |-> FALSE, HasEmbed |-> FALSE]

\* executeWithStore returns before it calls the store
AddRefused(c, err) ==
  /\ cmd' = [c EXCEPT !.pc = "returned", !.err = err, !.trace = <<"failed">>]
  /\ last' = Call("AddCommand", Ret(err, NoEvent, DB, 0), "", <<>>, ZeroTime)
  /\ UNCHANGED <<events, content, events_fts, ftsExists, exclusions,
                 schema_migrations, schema, journal_mode,
                 domainExclusions, regexExclusions, closed, running>>

\* executeWithStore from the call of the store on
AddStored(c, op, res, body) ==
  /\ SetDB(res.db)
  /\ last' = Call(op, res, "", body, ZeroTime)
  /\ cmd' = IF res.err = "nil"
            THEN [c EXCEPT !.pc = "returned", !.trace = <<"reported">>]
            ELSE [c EXCEPT !.pc = "returned", !.err = "storing event",
                           !.trace = <<"failed">>]
  /\ UNCHANGED <<domainExclusions, regexExclusions, closed, running>>

AddCommandCall ==
  /\ cmd.pc \in {"idle", "returned"}
  /\ \E url \in AddURLs :
      \E valid \in {validURL(url)} :
       \E excluded \in {valid /\ IsExcluded(Hostname(urlParseRequestURI(url).host))} :
        \E inline \in {<<>>} \cup Bodies, bodyFile \in BodyFiles,
           readable \in BOOLEAN, data \in {<<>>} \cup Bodies :
          /\ bodyFile = "" => (~readable /\ data = <<>>)
          /\ ~readable => data = <<>>
          /\ \E c \in {[NoCommand EXCEPT !.name = "add", !.URL = url,
                                         !.Body = inline,
                                         !.BodyFile = bodyFile,
                                         !.readable = readable]},
                body \in {IF bodyFile # "" THEN data ELSE inline} :
              IF ~valid THEN AddRefused(c, "invalid URL")
              ELSE IF inline # <<>> /\ bodyFile # ""
                THEN AddRefused(c, "--body and --body-file are mutually exclusive")
              ELSE IF bodyFile # "" /\ ~readable
                THEN AddRefused(c, "reading body file")
              ELSE IF excluded
                THEN AddRefused(c, "domain is excluded by exclusion rules")
              ELSE \E now \in AddTimestamps, r \in 0..(NumIDs - 1) :
                    \E e1 \in {withDomain(addEvent(c, body, now))} :
                     IF body # <<>>
                     THEN \E fail \in AddCommandFails :
                           AddStored(c, "AddEventWithContent",
                                     AddEventWithContentResult(DB, e1, body, r,
                                                               now, fail),
                                     body)
                     ELSE \E fail \in AddCommandFails :
                           AddStored(c, "AddEvent",
                                     AddEventResult(DB, e1, r, now, fail),
                                     <<>>)

NextAdd ==
  \/ AddCommandCall
  \/ DeleteEvent
  \/ PurgeAll

SpecAdd == Init /\ [][NextAdd]_vars

(***************************************************************************)
(* Two processes on one database file.  Outside a transaction every        *)
(* statement of a store operation commits on its own, so the statements of *)
(* the operations of the two processes interleave.                         *)
(***************************************************************************)
\* index entries held at a time under this specification
MaxIndexEntries == 3

ConcurrentInputs ==
  { Ev("https://example.com/article", "Test Article", "", "manual", FALSE) }

\* p goes on to its next statement
Goes(p, op, pc, ev, id, olderThan) ==
  /\ running' = [running EXCEPT ![p] = [Idle EXCEPT !.op = op, !.pc = pc,
                                                    !.ev = ev, !.id = id,
                                                    !.olderThan = olderThan]]
  /\ UNCHANGED last

\* the operation of p returns
Returns(p, op, res, id, olderThan) ==
  /\ running' = [running EXCEPT ![p] = Idle]
  /\ last' = Call(op, res, id, <<>>, olderThan)

Stays == UNCHANGED <<domainExclusions, regexExclusions, closed, cmd>>

\* AddEvent up to insertEvent.ExecContext
AddEventInsert(p) ==
  /\ running[p] = Idle
  /\ BagCardinality(events_fts) < MaxIndexEntries
  /\ \E in \in ConcurrentInputs, t \in FaultTimestamps, r \in 0..(NumIDs - 1) :
      \E e1 \in {[withDomain(in) EXCEPT !.Timestamp = t]} :
       \E e2 \in {populated(e1, r, t)} :
        \E s1 \in {execInsertEvent(DB, EventRow(e2, e2.HasBody), FALSE)} :
          /\ SetDB(s1.db)
          /\ IF isExcluded(e1.Domain)
             THEN Returns(p, "AddEvent", Ret("nil", e1, DB, 0), "", ZeroTime)
             ELSE IF ~s1.ok
               THEN Returns(p, "AddEvent", Ret("insert event", e2, DB, 0), "",
                            ZeroTime)
             ELSE Goes(p, "AddEvent", "fts", e2, "", ZeroTime)
          /\ Stays

\* AddEvent from INSERT INTO events_fts on
AddEventIndex(p) ==
  /\ running[p].op = "AddEvent"
  /\ \E s2 \in {execInsertFTS(DB, FtsEntry(running[p].ev), FALSE)} :
      /\ SetDB(s2.db)
      /\ Returns(p, "AddEvent",
                 Ret(IF s2.ok THEN "nil" ELSE "insert FTS", running[p].ev,
                     s2.db, 0),
                 "", ZeroTime)
      /\ Stays

\* PruneExpired: DELETE FROM events_fts WHERE event_id IN (SELECT ...)
PruneIndex(p) ==
  /\ running[p] = Idle
  /\ \E olderThan \in Ticks :
      \E old \in {{e.id : e \in {r \in events :
                                   expired(r, formatRFC3339(olderThan))}}} :
       \E s1 \in {execDeleteFTS(DB, old, FALSE)} :
        /\ SetDB(s1.db)
        /\ IF s1.ok THEN Goes(p, "PruneExpired", "events", NoEvent, "", olderThan)
           ELSE Returns(p, "PruneExpired", Ret("prune FTS", NoEvent, DB, 0), "",
                        olderThan)
        /\ Stays

\* PruneExpired: DELETE FROM events WHERE ts < ?
PruneEvents(p) ==
  /\ running[p].op = "PruneExpired"
  /\ \E old \in {{e.id : e \in {r \in events :
                     expired(r, formatRFC3339(running[p].olderThan))}}} :
      \E s2 \in {execDeleteEvents(DB, old, FALSE)} :
        /\ SetDB(s2.db)
        /\ Returns(p, "PruneExpired", Ret("nil", NoEvent, s2.db, s2.n), "",
                   running[p].olderThan)
        /\ Stays

\* DeleteEvent: DELETE FROM events_fts WHERE event_id = ?
DeleteIndex(p) ==
  /\ running[p] = Idle
  /\ \E id \in IDs :
      \E s1 \in {execDeleteFTS(DB, {id}, FALSE)} :
        /\ SetDB(s1.db)
        /\ IF s1.ok THEN Goes(p, "DeleteEvent", "event", NoEvent, id, ZeroTime)
           ELSE Returns(p, "DeleteEvent", Ret("delete FTS entry", NoEvent, DB, 0),
                        id, ZeroTime)
        /\ Stays

\* DeleteEvent: deleteEvent.ExecContext and RowsAffected
DeleteRow(p) ==
  /\ running[p].op = "DeleteEvent"
  /\ \E s2 \in {execDeleteEvents(DB, {running[p].id}, FALSE)} :
      /\ SetDB(s2.db)
      /\ Returns(p, "DeleteEvent",
                 Ret(IF s2.n = 0 THEN "not found" ELSE "nil", NoEvent, s2.db, 0),
                 running[p].id, ZeroTime)
      /\ Stays

\* PurgeAll: one statement of the list, then initFTS
PurgeStatement(p) ==
  /\ \/ /\ running[p] = Idle
        /\ SetDB(execDropFTS(DB, FALSE).db)
        /\ Goes(p, "PurgeAll", "content", NoEvent, "", ZeroTime)
     \/ /\ running[p].op = "PurgeAll"
        /\ running[p].pc = "content"
        /\ SetDB(execDeleteContent(DB, FALSE).db)
        /\ Goes(p, "PurgeAll", "events", NoEvent, "", ZeroTime)
     \/ /\ running[p].op = "PurgeAll"
        /\ running[p].pc = "events"
        /\ SetDB(execDeleteEvents(DB, idsOf(events), FALSE).db)
        /\ Goes(p, "PurgeAll", "initFTS", NoEvent, "", ZeroTime)
     \/ /\ running[p].op = "PurgeAll"
        /\ running[p].pc = "initFTS"
        /\ \E s4 \in {initFTS(DB, FALSE)} :
             /\ SetDB(s4.db)
             /\ Returns(p, "PurgeAll", Ret("nil", NoEvent, s4.db, 0), "",
                        ZeroTime)
  /\ Stays

NextConcurrent ==
  \/ \E p \in Procs : AddEventInsert(p)
  \/ \E p \in Procs : AddEventIndex(p)
  \/ \E p \in Procs : PruneIndex(p)
  \/ \E p \in Procs : PruneEvents(p)
  \/ \E p \in Procs : DeleteIndex(p)
  \/ \E p \in Procs : DeleteRow(p)
  \/ \E p \in Procs : PurgeStatement(p)

SpecConcurrent == Init /\ [][NextConcurrent]_vars

(***************************************************************************)
(* Two processes call Run on one database file.  The statements before the *)
(* migration loop and the isApplied query commit on their own; apply is    *)
(* one write transaction, which SQLite runs while no other connection      *)
(* writes, so that it commits as a whole or not at all.                    *)
(***************************************************************************)
\* the statement of apply that is made to fail
ApplyFails == {"none", "schema", "seed", "record", "commit"}

\* Run: PRAGMA journal_mode = WAL, PRAGMA foreign_keys = ON
RunPragmas(p) ==
  /\ running[p] = Idle
  /\ SetDB([DB EXCEPT !.journal_mode = "wal"])
  /\ Goes(p, "Run", "create", NoEvent, "", ZeroTime)
  /\ Stays

\* Run: CREATE TABLE IF NOT EXISTS schema_migrations
RunCreate(p) ==
  /\ running[p].op = "Run"
  /\ running[p].pc = "create"
  /\ SetDB([DB EXCEPT !.schema = @ \cup {"schema_migrations"}])
  /\ Goes(p, "Run", "check", NoEvent, "", ZeroTime)
  /\ Stays

\* Run: isApplied of the one migration; the loop ends when it is recorded
RunCheck(p) ==
  /\ running[p].op = "Run"
  /\ running[p].pc = "check"
  /\ SetDB(DB)
  /\ IF isApplied(DB, InitialMigration.version)
     THEN Returns(p, "Run", Ret("nil", NoEvent, DB, 0), "", ZeroTime)
     ELSE Goes(p, "Run", "apply", NoEvent, "", ZeroTime)
  /\ Stays

\* Run: apply of the migration found not applied; n is the number of
\* migrations this Run committed
RunApply(p) ==
  /\ running[p].op = "Run"
  /\ running[p].pc = "apply"
  /\ \E fail \in ApplyFails :
      \E a \in {apply(DB, InitialMigration, fail)} :
        /\ SetDB(a.db)
        /\ Returns(p, "Run",
                   IF a.err = "nil" THEN Ret("nil", NoEvent, a.db, 1)
                   ELSE Ret("apply migration: " \o a.err, NoEvent, a.db, 0),
                   "", ZeroTime)
  /\ Stays

NextRuns ==
  \/ \E p \in Procs : RunPragmas(p)
  \/ \E p \in Procs : RunCreate(p)
  \/ \E p \in Procs : RunCheck(p)
  \/ \E p \in Procs : RunApply(p)
  \/ AddUserRule

SpecRuns == InitMigrate /\ [][NextRuns]_vars

(***************************************************************************)
(* Adds of events whose URL has a port, a userinfo, no host or no parse,   *)
(* and whose Domain the caller has set.                                    *)
(***************************************************************************)
DomainInputs ==
  { Ev("https://www.example.com/page", "Test", "", "manual", FALSE),
    Ev("https://www.example.com/page", "Test", "chase.com", "manual", FALSE),
    Ev("http://a.com:8080/chase.com", "Chase Bank", "chase.com", "import",
       FALSE),
    Ev("https://user@example.org:443/", "Port", "example.org:443", "manual",
       FALSE),
    Ev("https://chase.com/accounts", "My Bank Account", "example.com",
       "extension", FALSE),
    Ev(":missing-scheme", "No scheme", "example.com", "manual", FALSE),
    Ev("http://example.com:abc/x", "Bad port", "", "manual", FALSE),
    Ev("/relative/path", "No host", "", "manual", FALSE) }

DomainTimestamps == {0}

AddEventDomains == AddEventCall(DomainInputs, DomainTimestamps, {"none"})
AddEventWithContentDomains ==
  AddEventWithContentCall(DomainInputs, DomainTimestamps, {"none"})

NextDomains ==
  \/ AddEventDomains
  \/ AddEventWithContentDomains
  \/ DeleteEvent
  \/ PurgeAll

SpecDomains == Init /\ [][NextDomains]_vars

(***************************************************************************)
(* The exclusion cache against the exclusions table: a store stays open    *)
(* while rows of the table are inserted and deleted by other connections,  *)
(* and a later NewSQLiteStore loads the table again.                       *)
(***************************************************************************)
\* GROUP BY domain: one row per stored domain with its number of events
domainCounts(rows) ==
  {[Domain |-> d, Count |-> Cardinality({e \in rows : e.domain = d})] :
     d \in {e.domain : e \in rows}}

\* ORDER BY cnt DESC LIMIT 10 with the larger counts last
topDomainsAscending(rows) ==
  LET s == CHOOSE o \in Orderings(domainCounts(rows)) :
             \A i \in 1..(Len(o) - 1) : o[i].Count <= o[i + 1].Count
  IN  SubSeq(s, 1, IF Len(s) < 10 THEN Len(s) ELSE 10)

\* ORDER BY cnt DESC LIMIT 10: domains of equal count come in an order the
\* stored rows fix
topDomains(rows) ==
  LET s == CHOOSE o \in Orderings(domainCounts(rows)) :
             \A i \in 1..(Len(o) - 1) : o[i].Count >= o[i + 1].Count
  IN  SubSeq(s, 1, IF Len(s) < 10 THEN Len(s) ELSE 10)

\* MIN(ts) and MAX(ts) of a non-empty table
minTs(rows) == CHOOSE t \in {e.ts : e \in rows} : \A e \in rows : t <= e.ts
maxTs(rows) == CHOOSE t \in {e.ts : e \in rows} : \A e \in rows : t >= e.ts

\* the zero Stats
NoStats ==
  [TotalEvents |-> 0, TotalContent |-> 0, OldestEvent |-> ZeroTime,
   NewestEvent |-> ZeroTime, DatabaseSizeBytes |-> 0, TopDomains |-> <<>>]

\* the query of GetStats that is made to fail
GetStatsFails ==
  {"none", "count events", "count content", "event time range", "top domains"}

\* GetStats: [err, stats]; stats is the nil pointer (NoStats here) on an error
GetStats(fail) ==
  IF fail = "count events" THEN [err |-> "count events", stats |-> NoStats]
  ELSE IF fail = "count content"
    THEN [err |-> "count content", stats |-> NoStats]
  ELSE IF events # {} /\ fail = "event time range"
    THEN [err |-> "event time range", stats |-> NoStats]
  ELSE IF fail = "top domains" THEN [err |-> "top domains", stats |-> NoStats]
  ELSE [err |-> "nil",
        stats |->
          [TotalEvents |-> Cardinality(events),
           TotalContent |-> Cardinality(content),
           OldestEvent |-> IF events = {} THEN ZeroTime
                           ELSE parseTimestamp(minTs(events)),
           NewestEvent |-> IF events = {} THEN ZeroTime
                           ELSE parseTimestamp(maxTs(events)),
           DatabaseSizeBytes |-> 0,
           TopDomains |-> topDomains(events)]]

GetStatsCall ==
  \E fail \in GetStatsFails :
    \E res \in {GetStats(fail)} :
      ReadCall("GetStats", res.err, NoEvent, "", <<res.stats>>)

\* Close releases the prepared statements and leaves the *sql.DB open
CloseCall ==
  /\ closed' = TRUE
  /\ last' = Call("Close", Ret("nil", NoEvent, DB, 0), "", <<>>, ZeroTime)
  /\ UNCHANGED <<events, content, events_fts, ftsExists, exclusions,
                 schema_migrations, schema, journal_mode,
                 domainExclusions, regexExclusions, cmd, running>>

\* rules other connections store: a domain, a pattern that does not compile
\* and a pattern that does
RuleInputs ==
  { Rule("domain", "example.com"), Rule("regex", "["),
    Rule("regex", ".*\\.test$") }

\* rules other connections delete
DeletableRules == { Rule("domain", "example.com"), Rule("domain", "chase.com") }

InsertRule == AddRuleCall(RuleInputs)

\* DELETE FROM exclusions WHERE rule_type = ? AND rule_value = ?
DeleteRule ==
  \E rule \in DeletableRules :
    \E gone \in {{r \in exclusions : /\ r.rule_type = rule.rule_type
                                     /\ r.rule_value = rule.rule_value}} :
      \E res \in {Ret("nil", NoEvent,
                      [DB EXCEPT !.exclusions = @ \ gone],
                      Cardinality(gone))} :
        /\ SetDB(res.db)
        /\ last' = Call("DeleteRule", res, "", <<>>, ZeroTime)
        /\ UNCHANGED <<domainExclusions, regexExclusions, closed, cmd, running>>

RuleTimestamps == {0}

\* events stored at a time under this specification
MaxRuleEvents == 1

\* the operations that run a prepared statement are called on a store that
\* was not closed
AddEventRules ==
  /\ ~closed
  /\ Cardinality(events) < MaxRuleEvents
  /\ AddEventCall(FaultInputs, RuleTimestamps, {"none"})
AddEventWithContentRules ==
  /\ ~closed
  /\ Cardinality(events) < MaxRuleEvents
  /\ AddEventWithContentCall(FaultInputs, RuleTimestamps, {"none"})
DeleteEventRules == ~closed /\ DeleteEventCall({"none"})
GetEventRules == ~closed /\ GetEventCall
GetContentRules == ~closed /\ GetContentCall
PruneExpiredRules == PruneExpiredCall({"none"})
PurgeAllRules == PurgeAllCall({"none"})

RuleQueries == {NoQuery, SearchQuery("article", ""), SearchQuery("", "example.com")}

SearchEventsRules == SearchEventsOf(RuleQueries)

NextRules ==
  \/ InsertRule
  \/ DeleteRule
  \/ NewSQLiteStore
  \/ AddEventRules
  \/ AddEventWithContentRules
  \/ DeleteEventRules
  \/ PruneExpiredRules
  \/ PurgeAllRules
  \/ GetEventRules
  \/ GetContentRules
  \/ SearchEventsRules
  \/ GetStatsCall
  \/ CloseCall

SpecRules == Init /\ [][NextRules]_vars

C22_Domains == C21_Domains \cup {"example.com", "www.example.com"}

C22_CacheStep ==
  last'.op # "NewSQLiteStore" =>
    /\ UNCHANGED <<domainExclusions, regexExclusions>>
    /\ \A d \in C22_Domains : isExcluded(d)' = isExcluded(d)

C22_ReloadStep ==
  last'.op = "NewSQLiteStore" =>
    /\ domainExclusions' = loadExclusions(exclusions').domains
    /\ regexExclusions' = loadExclusions(exclusions').regexes

\* C22: the exclusion cache is a snapshot taken in NewSQLiteStore: every step of a store operation (add, get, search, delete, prune, purge, stats, close) and every insert or delete of a row of the exclusions table leaves the cache and the result of isExcluded for every domain unchanged; a new NewSQLiteStore loads the table as it is then.
C22_CacheIsSnapshot == [][C22_CacheStep /\ C22_ReloadStep]_vars

\* the table holds example.com and no longer chase.com, the store opened
\* before still excludes chase.com and has just stored an example.com event
C22_Witness ==
  /\ last.op \in AddOps
  /\ last.err = "nil"
  /\ last.ev.URL = "https://example.com/article"
  /\ \E row \in events : row.id = last.ev.ID /\ row.domain = "example.com"
  /\ ruleExists(exclusions, Rule("domain", "example.com"))
  /\ ~ruleExists(exclusions, Rule("domain", "chase.com"))
  /\ ~isExcluded("example.com")
  /\ isExcluded("chase.com")

\* the step sequences of the prune command
C23_Paths ==
  { <<>>, <<"failed">>, <<"counted">>, <<"counted", "reported">>,
    <<"counted", "aborted">>, <<"counted", "confirmed">>,
    <<"counted", "confirmed", "failed">>,
    <<"counted", "confirmed", "executed", "reported">> }

C23_Path ==
  /\ cmd.trace \in C23_Paths
  /\ ("executed" \in {cmd.trace[i] : i \in 1..Len(cmd.trace)}) =>
       /\ ~cmd.DryRun
       /\ cmd.count > 0

\* the command calls PruneExpired
C23_Invoked == cmd' # cmd /\ last'.op = "PruneExpired"

C23_InvokedStep ==
  C23_Invoked =>
    /\ cmd.trace = <<"counted", "confirmed">>
    /\ cmd.count > 0
    /\ ~cmd.DryRun
    /\ \/ cmd.Force
       \/ \E a \in {"y", "yes"} : TrimSpace(ToLower(cmd.answer)) = a
    /\ last'.olderThan = cmd.cutoff

C23_OtherStep == (cmd' # cmd /\ ~C23_Invoked) => UNCHANGED Tables

\* C23: the prune command follows counted -> reported (nothing to prune, dry run), counted -> aborted (declined) or counted -> confirmed -> executed -> reported; it calls PruneExpired only after the count, with a positive count, not in a dry run, and with --force or an answer that is y or yes once lowered and trimmed; every other step of the command leaves events, content and the index unchanged.
C23_PruneCommandSteps == []C23_Path /\ [][C23_InvokedStep /\ C23_OtherStep]_vars

\* a confirmed run has pruned what it counted
C23_Witness ==
  /\ cmd.trace = <<"counted", "confirmed", "executed", "reported">>
  /\ ~cmd.Force
  /\ cmd.answer = " Yes "
  /\ cmd.count = 1
  /\ cmd.pruned = 1
  /\ last.op = "PruneExpired"
  /\ last.removed.events = 1
  /\ events # {}

\* a declined run and a dry run have left the expired event in place
C23_WitnessDeclined ==
  /\ cmd.trace \in {<<"counted", "aborted">>, <<"counted", "reported">>}
  /\ cmd.count = 1
  /\ last.op = "PruneCommand"
  /\ \E r \in events : expired(r, formatRFC3339(cmd.cutoff))

C24_CountStep == last'.op = "CountExpired" => UNCHANGED Tables

\* PruneExpired run on the state a count was just taken of
C24_PruneStep ==
  (C23_Invoked /\ last'.err = "nil") =>
    /\ last'.n = CountExpired(DB, cmd.cutoff, "none").n
    /\ last'.n = last'.removed.events
    /\ last'.n = Cardinality(events \ events')

C24_Agree ==
  \A cutoff \in Ticks :
    /\ CountExpired(DB, cutoff, "none").db = DB
    /\ CountExpired(DB, cutoff, "none").n =
         PruneExpiredResult(DB, cutoff, "none").n

C25_Accepted == {"PURGE", " PURGE ", "PURGE\t"}

C25_Allowed ==
  /\ cmd'.All
  /\ cmd'.Force \/ (~cmd'.eof /\ cmd'.answer \in C25_Accepted)

C25_Step ==
  (cmd'.name = "purge" /\ last'.op \in {"PurgeCommand", "PurgeAll"}) =>
    /\ last'.op = "PurgeAll" => C25_Allowed
    /\ ~C25_Allowed => /\ last'.op = "PurgeCommand"
                       /\ last'.err # "nil"
                       /\ cmd'.err # "nil"
                       /\ UNCHANGED Tables

\* C25: the purge command calls PurgeAll only when --all is set and either --force is set or the typed line, trimmed of whitespace, is exactly PURGE; in every other case it returns an error and leaves events, content and the index unchanged.
C25_PurgeNeedsConfirmation == [][C25_Step]_vars

\* a purge confirmed by the line " PURGE " has emptied a store that held an
\* event with content
C25_Witness ==
  /\ last.op = "PurgeAll"
  /\ last.err = "nil"
  /\ cmd.name = "purge"
  /\ cmd.All
  /\ ~cmd.Force
  /\ cmd.answer = " PURGE "
  /\ last.removed.events > 0
  /\ last.removed.content > 0
  /\ events = {}

\* a purge refused for the line "purge" has left the stored event in place
C25_WitnessRefused ==
  /\ last.op = "PurgeCommand"
  /\ cmd.All
  /\ cmd.answer = "purge"
  /\ cmd.err = "aborted: confirmation text did not match"
  /\ events # {}

\* the values of --url without a host
C26_NoHost == {"not-a-valid-url", "/relative/path", "mailto:user@example.com"}

\* the command just run fails one of the four validations
C26_Invalid ==
  \/ cmd'.URL \in C26_NoHost
  \/ cmd'.Body # <<>> /\ cmd'.BodyFile # ""
  \/ cmd'.BodyFile # "" /\ ~cmd'.readable
  \/ HostExcluded(cmd'.URL)

C26_Step ==
  (cmd'.name = "add" /\ last'.op \in {"AddCommand"} \cup AddOps) =>
    /\ C26_Invalid => /\ cmd'.err # "nil"
                      /\ cmd'.err # "storing event"
                      /\ last'.op = "AddCommand"
                      /\ UNCHANGED Tables
    /\ (HostExcluded(cmd'.URL) /\ cmd'.Body = <<>> /\ cmd'.BodyFile = "") =>
         cmd'.err = "domain is excluded by exclusion rules"
    /\ ~C26_Invalid => last'.op \in AddOps

\* C26: the add command returns an explicit error and calls no store operation, so that events, content and the index stay unchanged, for a URL without a host, for --body with --body-file, for an unreadable body file and for a host the store excludes (with an error naming the exclusion); every other invocation reaches the store.
C26_AddValidates == [][C26_Step]_vars

\* the command has refused the excluded host chase.com on a store that
\* holds an event
C26_Witness ==
  /\ cmd.name = "add"
  /\ cmd.URL = "https://chase.com/login"
  /\ cmd.err = "domain is excluded by exclusion rules"
  /\ last.op = "AddCommand"
  /\ \E row \in events : row.domain = "a.com"

\* C27: once the operations of both processes have returned, every entry of the search index refers to an existing event row, whatever the interleaving of their statements.
C27_NoOrphanIndexEntry ==
  (\A p \in Procs : running[p] = Idle) =>
    \A entry \in BagToSet(events_fts) : entry.event_id \in idsOf(events)

C28_Recorded == \E r \in schema_migrations : r.version = InitialMigration.version

C28_Committed ==
  /\ V001Tables \cup V001Indexes \subseteq schema
  /\ \A k \in 1..Len(defaults) : ruleExists(exclusions, defaults[k])

C28_State ==
  /\ C28_Recorded <=> V001Tables \cup V001Indexes \subseteq schema
  /\ C28_Recorded <=> V001Tables \cap schema # {}
  /\ C28_Recorded => C28_Committed
  /\ \A r1, r2 \in schema_migrations : r1.version = r2.version => r1 = r2
  /\ Cardinality(schema_migrations) <= 1

\* a Run commits the migration only when its version was not recorded, and a
\* recorded version stays recorded with its row
C28_Step ==
  /\ (\E p \in Procs : /\ running[p].pc = "apply"
                        /\ running'[p] = Idle
                        /\ last'.n = 1) =>
       /\ ~C28_Recorded
       /\ C28_Recorded'
       /\ exclusions' = seedDefaultExclusions(exclusions)
  /\ C28_Recorded => /\ schema_migrations' = schema_migrations
                     /\ schema' = schema

\* C28: under two Run calls whose statements interleave, in every state the version row of the migration exists exactly when its tables and indexes exist, and then with its seed rows; there is at most one row per version; a Run commits the migration only from a state in which its version is not recorded, and once recorded neither the row nor the schema changes again.
C28_MigrationsOnce == []C28_State /\ [][C28_Step]_vars

\* both processes found the version missing, one committed the migration
\* and the other's apply has failed at the version row
C28_Witness ==
  /\ last.op = "Run"
  /\ last.err = "apply migration: record migration"
  /\ C28_Recorded
  /\ \A p \in Procs : running[p] = Idle

\* the host component of each URL, without userinfo and port; none for a URL
\* that does not parse or has no authority
C29_Host ==
  [u \in {in.URL : in \in DomainInputs} |->
     CASE u = "https://www.example.com/page" -> "www.example.com"
       [] u = "http://a.com:8080/chase.com" -> "a.com"
       [] u = "https://user@example.org:443/" -> "example.org"
       [] u = "https://chase.com/accounts" -> "chase.com"
       [] OTHER -> ""]

C29_Rows == \A row \in events : row.domain = C29_Host[row.url]

\* an add of a URL whose host is not excluded, under an ID no stored row
\* has, returns nil and stores the row with the derived domain, also when the
\* URL has no host or does not parse
C29_Step ==
  (/\ last'.op \in AddOps
   /\ C29_Host[last'.ev.URL] \notin {"chase.com"}
   /\ last'.ev.ID \notin idsOf(events)) =>
    /\ last'.err = "nil"
    /\ last'.ev.Domain = C29_Host[last'.ev.URL]
    /\ \E row \in events' : /\ row.id = last'.ev.ID
                            /\ row.url = last'.ev.URL
                            /\ row.domain = C29_Host[last'.ev.URL]

\* C29: every stored event row has as domain the host of its URL (without userinfo and port) whatever Domain the caller set, and the empty domain when the URL does not parse or has no host; such an add returns no error and stores the row.
C29_DomainFromURL == []C29_Rows /\ [][C29_Step]_vars

\* rows stored for a URL that does not parse, with the caller's Domain
\* example.com dropped, and for a caller's Domain chase.com on another host
C29_Witness ==
  /\ \E row \in events : row.url = ":missing-scheme" /\ row.domain = ""
  /\ \E row \in events : /\ row.url = "http://a.com:8080/chase.com"
                         /\ row.domain = "a.com"
  /\ last.op \in AddOps
  /\ last.err = "nil"

C30_Domains == C22_Domains \cup {"site.test", "test", "["}

\* what each stored pattern requires of the end of a domain; "[" is no
\* pattern
C30_Ending ==
  [p \in {".*\\.xxx$", ".*pornhub\\.com$", ".*\\.test$"} |->
     CASE p = ".*\\.xxx$" -> ".xxx"
       [] p = ".*pornhub\\.com$" -> "pornhub.com"
       [] OTHER -> ".test"]

C30_Excludes(table, d) ==
  \/ \E t \in table : t.rule_type = "domain" /\ t.rule_value = d
  \/ \E t \in table :
       /\ t.rule_type = "regex"
       /\ t.rule_value \in DOMAIN C30_Ending
       /\ Len(C30_Ending[t.rule_value]) <= Len(d)
       /\ SubSeq(d, Len(d) - Len(C30_Ending[t.rule_value]) + 1, Len(d))
            = C30_Ending[t.rule_value]

C30_LoadStep ==
  last'.op = "NewSQLiteStore" =>
    /\ last'.err = "nil"
    /\ \A d \in C30_Domains : isExcluded(d)' <=> C30_Excludes(exclusions', d)

\* the hosts of the URLs added under this specification
C30_Host ==
  [u \in {in.URL : in \in FaultInputs} |->
     IF u = "https://chase.com/accounts" THEN "chase.com" ELSE "example.com"]

C30_EnforceStep ==
  (/\ last.op = "NewSQLiteStore"
   /\ last'.op \in AddOps
   /\ C30_Excludes(exclusions, C30_Host[last'.ev.URL]))
    => /\ last'.err = "nil"
       /\ events' = events
       /\ content' = content

\* C30: NewSQLiteStore returns no error whatever pattern rules the table holds, and the store it returns excludes a domain exactly when a domain rule of the table equals it or a pattern rule of the table that compiles matches it, wherever the rule stands relative to a pattern that does not compile; the pattern that does not compile excludes nothing, and an add of an excluded host on the store just opened stores nothing.
C30_InvalidPatternSkipped == [][C30_LoadStep /\ C30_EnforceStep]_vars

\* the table holds "[" with a domain rule and a pattern rule stored after
\* it, and the store opened on it excludes by both and by the seeded rules
C30_Witness ==
  /\ last.op = "NewSQLiteStore"
  /\ last.err = "nil"
  /\ \E bad, dom, pat \in exclusions :
       /\ bad.rule_type = "regex" /\ bad.rule_value = "["
       /\ dom.rule_type = "domain" /\ dom.rule_value = "example.com"
       /\ pat.rule_type = "regex" /\ pat.rule_value = ".*\\.test$"
       /\ bad.id < dom.id
       /\ bad.id < pat.id
  /\ isExcluded("example.com")
  /\ isExcluded("site.test")
  /\ isExcluded("site.xxx")
  /\ isExcluded("chase.com")
  /\ ~isExcluded("[")
  /\ ~isExcluded("a.com")

(***************************************************************************)
(* SearchEvents with the limits and offsets a caller may leave unset or    *)
(* set to any integer.                                                     *)
(***************************************************************************)
\* the limits callers pass: none, negative, smaller than, equal to and
\* larger than the number of rows, the default and one more
Limits == {-1, 0, 1, 2, 3, DefaultLimit, DefaultLimit + 1}

LimitQueries ==
  {[q EXCEPT !.Limit = l, !.Offset = o] :
     q \in {NoQuery, SearchQuery("", "example.com"), SearchQuery("go", "")},
     l \in Limits, o \in {0, 1}}

SearchEventsLimits == SearchEventsOf(LimitQueries)

NextLimits ==
  \/ AddEventRead
  \/ AddEventWithContentRead
  \/ DeleteEvent
  \/ PurgeAll
  \/ SearchEventsLimits

SpecLimits == Init /\ [][NextLimits]_vars

C31_Limit(q) == IF q.Limit <= 0 THEN 50 ELSE q.Limit

C31_Step ==
  last'.op = "SearchEvents" =>
    /\ last'.err = "nil"
    /\ Len(last'.out) <= C31_Limit(last'.q)
    /\ Cardinality(C18_IDs(last'.out)) = Len(last'.out)
    /\ C18_IDs(last'.out) \subseteq idsOf(C18_Matching(last'.q))
    /\ (/\ last'.q.Offset = 0
        /\ Cardinality(C18_Matching(last'.q)) <= C31_Limit(last'.q))
         => C18_IDs(last'.out) = idsOf(C18_Matching(last'.q))

RangeQueries ==
  {[q EXCEPT !.Since = s, !.Until = u] :
     q \in {NoQuery, SearchQuery("go", "")},
     s \in Ticks \cup {ZeroTime}, u \in Ticks \cup {ZeroTime}}

AddEventRange == AddEventCall(ReadInputs, Ticks, {"none"})
SearchEventsRange == SearchEventsOf(RangeQueries)

NextRange ==
  \/ AddEventRange
  \/ DeleteEvent
  \/ SearchEventsRange

SpecRange == Init /\ [][NextRange]_vars

\* the stored events captured within the bounds of a query
C32_Within(q) ==
  {e \in C18_Matching([q EXCEPT !.Since = ZeroTime, !.Until = ZeroTime]) :
     /\ q.Since # ZeroTime => q.Since <= e.at
     /\ q.Until # ZeroTime => e.at <= q.Until}

C32_Step ==
  (last'.op = "SearchEvents" /\ last'.err = "nil")
    => C18_IDs(last'.out) = idsOf(C32_Within(last'.q))

\* C32: a SearchEvents call with Since and/or Until returns exactly the stored events, fewer than the limit here, whose capture instant t satisfies Since <= t <= Until, for every combination of capture instants and bounds.
C32_RangeExact == [][C32_Step]_vars

(***************************************************************************)
(* GetStats on stores that hold several events on several domains.  The    *)
(* tables are those a sequence of adds leaves: each identifier is free or  *)
(* names an event added by AddEvent or by AddEventWithContent.             *)
(***************************************************************************)
\* identifiers that may be in use when the statistics are read
StatsIDs == 3

\* what an identifier names: nothing, or an added event
Unused == [used |-> FALSE, in |-> NoEvent, t |-> 0, body |-> FALSE]
StatsChoices ==
  [0..(StatsIDs - 1) ->
     {Unused} \cup [used : {TRUE}, in : ReadInputs, t : {0, MaxTick},
                    body : BOOLEAN]]

\* the Event of identifier r as the add populated it
StatsEvent(r, c) ==
  [populated([withDomain(c.in) EXCEPT !.Timestamp = c.t], r, c.t)
     EXCEPT !.HasBody = c.body]

\* the database after the adds of a choice
StatsDB(choice) ==
  LET used == {r \in DOMAIN choice : choice[r].used}
      d == initFTS(Migrated, FALSE).db
  IN  [d EXCEPT
         !.events = {EventRow(StatsEvent(r, choice[r]), choice[r].body) :
                       r \in used},
         !.content = {ContentRow(generateID(r), CHOOSE b \in Bodies : TRUE) :
                        r \in {u \in used : choice[u].body}},
         !.fts = SetToBag({FtsEntry(StatsEvent(r, choice[r])) : r \in used})]

InitStats ==
  \E choice \in StatsChoices :
    \E d \in {StatsDB(choice)} :
      \E cache \in {loadExclusions(d.exclusions)} :
        /\ events = d.events
        /\ content = d.content
        /\ events_fts = d.fts
        /\ ftsExists = d.ftsExists
        /\ exclusions = d.exclusions
        /\ schema_migrations = d.schema_migrations
        /\ schema = d.schema
        /\ journal_mode = d.journal_mode
        /\ domainExclusions = cache.domains
        /\ regexExclusions = cache.regexes
        /\ closed = FALSE
        /\ cmd = NoCommand
        /\ running = NoneRunning
        /\ last = [op |-> "NewSQLiteStore", err |-> "nil", ev |-> NoEvent,
                   n |-> 0, id |-> "", body |-> <<>>, olderThan |-> ZeroTime,
                   removed |-> [events |-> 0, content |-> 0, fts |-> 0],
                   out |-> <<>>, q |-> NoQuery]

NextStats ==
  \/ GetStatsCall
  \/ DeleteEvent
  \/ PruneExpired

SpecStats == InitStats /\ [][NextStats]_vars

C33_Stats == last'.out[1]

C33_Step ==
  (last'.op = "GetStats" /\ last'.err = "nil") =>
    /\ UNCHANGED <<events, content, events_fts, ftsExists, exclusions,
                   schema_migrations, schema, journal_mode>>
    /\ C33_Stats.TotalEvents = Cardinality(idsOf(events))
    /\ C33_Stats.TotalContent = Cardinality({c.event_id : c \in content})
    /\ C33_Stats.TotalContent <= C33_Stats.TotalEvents
    /\ events # {} =>
         /\ \A e \in events :
              /\ C33_Stats.OldestEvent <= e.ts * TicksPerSecond
              /\ e.ts * TicksPerSecond <= C33_Stats.NewestEvent
         /\ \E e \in events : C33_Stats.OldestEvent = e.ts * TicksPerSecond
         /\ \E e \in events : C33_Stats.NewestEvent = e.ts * TicksPerSecond
    /\ Len(C33_Stats.TopDomains) <= 10
    /\ \A k \in 1..Len(C33_Stats.TopDomains) :
         /\ C33_Stats.TopDomains[k].Count
              = Cardinality({e \in events :
                               e.domain = C33_Stats.TopDomains[k].Domain})
         /\ C33_Stats.TopDomains[k].Count > 0
         /\ \A j \in 1..(k - 1) :
              /\ C33_Stats.TopDomains[j].Count >= C33_Stats.TopDomains[k].Count
              /\ C33_Stats.TopDomains[j].Domain # C33_Stats.TopDomains[k].Domain
    /\ Cardinality({e.domain : e \in events}) <= 10
         => {e.domain : e \in events}
              = {C33_Stats.TopDomains[k].Domain :
                   k \in 1..Len(C33_Stats.TopDomains)}

TitleWords == {"Golang", "Docs", "Go", "Programming", "Rust", "Language"}

WordQueries == {SearchQuery(w, "") : w \in TitleWords}

SearchEventsWords == SearchEventsOf(WordQueries)

NextUsable ==
  \/ AddEventRead
  \/ AddEventWithContentRead
  \/ DeleteEvent
  \/ PurgeAllFaulty
  \/ SearchEventsWords

SpecUsable == Init /\ [][NextUsable]_vars

\* the words of a title of ReadInputs
C34_Words ==
  [t \in {in.Title : in \in ReadInputs} |->
     CASE t = "Golang Docs" -> {"Golang", "Docs"}
       [] t = "Go Programming" -> {"Go", "Programming"}
       [] OTHER -> {"Rust", "Language"}]

\* right after a PurgeAll that returned nil nothing is stored or found
C34_AfterPurge ==
  (last.op = "PurgeAll" /\ last.err = "nil")
    => /\ events = {}
       /\ ftsExists
       /\ \A w \in TitleWords :
            SearchEvents(SearchQuery(w, "")) = [err |-> "nil", list |-> <<>>]

\* the add made next stores its event and nothing else
C34_AddStep ==
  (/\ last.op = "PurgeAll"
   /\ last.err = "nil"
   /\ last'.op \in AddOps
   /\ ~HostExcluded(last'.ev.URL))
    => /\ last'.err = "nil"
       /\ last'.ev.ID # ""
       /\ idsOf(events') = {last'.ev.ID}
       /\ \A e \in events' : e.title = last'.ev.Title

\* a store that holds one event, after an add that returned nil, finds it
\* by each word of its title
C34_Found ==
  (last.op \in AddOps /\ last.err = "nil" /\ idsOf(events) = {last.ev.ID})
    => \A w \in C34_Words[last.ev.Title] :
         \E res \in {SearchEvents(SearchQuery(w, ""))} :
           /\ res.err = "nil"
           /\ Len(res.list) = 1
           /\ res.list[1].ID = last.ev.ID
           /\ res.list[1].Title = last.ev.Title

C34_SearchStep ==
  (last'.op = "SearchEvents" /\ last'.err = "nil")
    => C18_IDs(last'.out) \subseteq idsOf(events)

\* C34: right after a PurgeAll that returned nil a free-text search for any title word returns nil and no event; an AddEvent or AddEventWithContent of a non-excluded event made next on the same store returns nil with the ID populated and leaves that event as the only one stored, and a free-text search for each word of its title then returns that event and no other; a search never returns an event that is not stored.
C34_UsableAfterPurge ==
  /\ [](C34_AfterPurge /\ C34_Found)
  /\ [][C34_AddStep /\ C34_SearchStep]_vars

\* PurgeAll has just returned nil on a store whose index an earlier failed
\* PurgeAll had dropped while an event stayed; the event is gone, the index
\* is back and the next add succeeds
C34_Witness ==
  /\ last.op = "PurgeAll"
  /\ last.err = "nil"
  /\ last.removed.events = 1
  /\ events = {}
  /\ ftsExists
  /\ \A in \in ReadInputs :
       AddEventResult(DB, withDomain(in), 0, 0, "none").err = "nil"

\* the index holds one entry for each stored event, with its title and
\* url, and no other entry
C35_IndexMirrorsEvents ==
  /\ ftsExists
  /\ {f.event_id : f \in BagToSet(events_fts)} = idsOf(events)
  /\ \A e \in events :
       /\ Cardinality({f \in BagToSet(events_fts) : f.event_id = e.id}) = 1
       /\ \A f \in BagToSet(events_fts) :
            f.event_id = e.id
              => /\ CopiesIn(f, events_fts) = 1
                 /\ f.title = e.title
                 /\ f.url = e.url

\* the words of the titles of EventInputs
C35_Words ==
  [t \in {in.Title : in \in EventInputs} |->
     CASE t = "My Bank Account" -> {"My", "Bank", "Account"}
       [] t = "Excluded by regex" -> {"Excluded", "by", "regex"}
       [] t = "Chase" -> {"Chase"}
       [] t = "Test Article" -> {"Test", "Article"}
       [] OTHER -> {"Chase", "Bank"}]

\* every stored event is returned by the search for its title and by the
\* search for each word of it
C35_Reachable ==
  \A e \in events :
    \A text \in {e.title} \cup C35_Words[e.title] :
      \E res \in {SearchEvents(SearchQuery(text, ""))} :
        /\ res.err = "nil"
        /\ e.id \in C18_IDs(res.list)

\* a call that returns an error leaves the tables as they were
C35_ErrorStep ==
  last'.err # "nil" => UNCHANGED <<events, content, events_fts, ftsExists>>

\* C35: with the store operations run one at a time and no statement failing, where a call returns an error only for an identifier collision or a missing event and then changes nothing, in every state the event_ids of the search index are the IDs of the events table, each event has exactly one index entry, which carries its title and url, and a free-text search for the title of a stored event or for any word of it returns that event.
C35_IndexComplete ==
  [](C35_IndexMirrorsEvents /\ C35_Reachable) /\ [][C35_ErrorStep]_vars

\* two events are stored after an add with content, each with its one
\* index entry; the search for "Bank" returns the one and
\* the search for "Test Article" the other
C35_Witness ==
  /\ last.op = "AddEventWithContent"
  /\ last.err = "nil"
  /\ {e.title : e \in events} = {"Test Article", "Chase Bank"}
  /\ BagCardinality(events_fts) = 2
  /\ \E e \in events :
       /\ e.title = "Chase Bank"
       /\ C18_IDs(SearchEvents(SearchQuery("Bank", "")).list) = {e.id}
  /\ \E e \in events :
       /\ e.title = "Test Article"
       /\ C18_IDs(SearchEvents(SearchQuery("Test Article", "")).list) = {e.id}

\* C36: in every state an event row has has_body set exactly when a content row exists for the event, whatever HasBody value the Event given to AddEvent carried.
C36_HasBodyMatchesContent ==
  \A e \in events : e.has_body <=> \E c \in content : c.event_id = e.id

C37_Step ==
  last'.op \in AddOps =>
    /\ last'.ev.ID # ""
         => /\ last'.ev.ID \notin idsOf(events)
            /\ last'.ev.ID \in idsOf(events')
    /\ last'.err # "nil" => last'.ev.ID = ""

\* C37: whenever AddEvent or AddEventWithContent returns, with or without an error, the Event's ID is non-empty only if the call persisted a row with that ID, and it is empty when the call returned an error.
C37_PopulatedMeansStored == [][C37_Step]_vars

C38_Step ==
  (C23_Invoked /\ last'.err = "nil") =>
    /\ last'.n = cmd.count
    /\ Cardinality(events \ events') = cmd.count
    /\ \A e \in events \ events' : e.ts < formatRFC3339(cmd.cutoff)

\* C38: while other processes add and delete events, the PruneExpired call of the prune command removes and returns exactly as many events as the count step of the same run counted and the prompt showed, each of them stored before the cutoff.
C38_PrunesWhatWasCounted == [][C38_Step]_vars

(***************************************************************************)
(* Durations.  time.Duration is an int64 count of nanoseconds and int is   *)
(* 64 bits wide; a value is kept as its eight bytes in two's complement,   *)
(* least significant first, so that products wrap as they do in Go.        *)
(***************************************************************************)
\* bytes of an int64
WordBytes == 8

Zero(len) == [i \in 1..len |-> 0]

\* w * k + c on the bytes of w from byte i on, for a small k: the bytes of
\* the product and what is carried out of the last byte
RECURSIVE mulAdd(_, _, _, _)
mulAdd(w, k, c, i) ==
  IF i > Len(w) THEN [w |-> w, carry |-> c]
  ELSE mulAdd([w EXCEPT ![i] = (w[i] * k + c) % 256], k,
              (w[i] * k + c) \div 256, i + 1)

\* the product of w and the factors in turn, bits beyond the width dropped
RECURSIVE mulAll(_, _, _)
mulAll(w, factors, i) ==
  IF i > Len(factors) THEN w
  ELSE mulAll(mulAdd(w, factors[i], 0, 1).w, factors, i + 1)

\* -w in two's complement
negate(w) == mulAdd([i \in 1..Len(w) |-> 255 - w[i]], 1, 1, 1).w

isNegative(w) == w[Len(w)] >= 128

\* the decimal digits of s from position i on, added to acc; not ok at a
\* character that is no digit and when the value leaves the width
RECURSIVE parseDigits(_, _, _)
parseDigits(s, i, acc) ==
  IF i > Len(s) THEN [ok |-> TRUE, w |-> acc]
  ELSE IF Char(s, i) \notin Digits THEN [ok |-> FALSE, w |-> acc]
  ELSE LET r == mulAdd(acc, 10, Index("0123456789", Char(s, i)) - 1, 1)
       IN  IF r.carry # 0 THEN [ok |-> FALSE, w |-> acc]
           ELSE parseDigits(s, i + 1, r.w)

\* strconv.Atoi: an optional sign and decimal digits, within the range of
\* int; [ok, n]
Atoi(s) ==
  LET signed == s # "" /\ Char(s, 1) \in {"+", "-"}
      digits == IF signed THEN From(s, 2) ELSE s
      m == parseDigits(digits, 1, Zero(WordBytes))
      minInt == [i \in 1..WordBytes |-> IF i = WordBytes THEN 128 ELSE 0]
  IN  IF digits = "" \/ ~m.ok THEN [ok |-> FALSE, n |-> Zero(WordBytes)]
      ELSE IF signed /\ Char(s, 1) = "-"
        THEN IF isNegative(m.w) /\ m.w # minInt
             THEN [ok |-> FALSE, n |-> Zero(WordBytes)]
             ELSE [ok |-> TRUE, n |-> negate(m.w)]
      ELSE IF isNegative(m.w) THEN [ok |-> FALSE, n |-> Zero(WordBytes)]
      ELSE [ok |-> TRUE, n |-> m.w]

\* time.Second as factors of small size
Second == <<1000, 1000, 1000>>

\* what n is multiplied by for each suffix
UnitFactors ==
  [u \in {"d", "h", "w", "m", "s"} |->
     CASE u = "d" -> <<24, 3600>> \o Second
       [] u = "h" -> <<3600>> \o Second
       [] u = "w" -> <<7, 24, 3600>> \o Second
       [] u = "m" -> <<60>> \o Second
       [] OTHER -> Second]

\* parseDuration that refuses a product that left the range or is negative
parseDurationChecked(s) ==
  LET n == Atoi(Before(s, Len(s)))
      wide == n.n \o Zero(WordBytes)
      exact == mulAll(wide, UnitFactors[Char(s, Len(s))], 1)
  IN  IF Len(s) < 2 \/ ~n.ok \/ Char(s, Len(s)) \notin DOMAIN UnitFactors
      THEN [err |-> "invalid duration", d |-> Zero(WordBytes)]
      ELSE IF \/ isNegative(n.n)
              \/ \E i \in WordBytes..(2 * WordBytes) :
                   exact[i] >= (IF i = WordBytes THEN 128 ELSE 1)
        THEN [err |-> "invalid duration", d |-> Zero(WordBytes)]
      ELSE [err |-> "nil", d |-> SubSeq(exact, 1, WordBytes)]

\* parseDuration: [err, d]
parseDuration(s) ==
  LET n == Atoi(Before(s, Len(s)))
  IN  IF s = "" THEN [err |-> "invalid duration", d |-> Zero(WordBytes)]
      ELSE IF Len(s) < 2 THEN [err |-> "invalid duration", d |-> Zero(WordBytes)]
      ELSE IF ~n.ok THEN [err |-> "invalid duration", d |-> Zero(WordBytes)]
      ELSE IF Char(s, Len(s)) \notin DOMAIN UnitFactors
        THEN [err |-> "invalid duration", d |-> Zero(WordBytes)]
      ELSE [err |-> "nil",
            d |-> mulAll(n.n, UnitFactors[Char(s, Len(s))], 1)]

\* prune.go: defaultRetentionDays days
defaultRetentionDays == 30
defaultRetention ==
  mulAll(mulAdd(Zero(WordBytes), 1, defaultRetentionDays, 1).w,
         UnitFactors["d"], 1)

\* nanoseconds of a clock tick
NanosPerTick == 1000000000 \div TicksPerSecond

\* a distance in ticks that leads from any instant of the time line past
\* its ends
Far == MaxTick + TicksPerSecond

\* the ticks of a duration that is not negative, Far when they are more
ticksOf(w) ==
  IF \/ \E i \in 5..WordBytes : w[i] # 0
     \/ w[4] >= 128
  THEN Far
  ELSE LET t == (w[1] + w[2] * 256 + w[3] * 65536 + w[4] * 16777216)
                  \div NanosPerTick
       IN  IF t > Far THEN Far ELSE t

\* time.Now().Add(-retention) on the time line of the model
cutoffOf(now, retention) ==
  IF isNegative(retention) THEN now + ticksOf(negate(retention))
  ELSE now - ticksOf(retention)

\* values of --older-than
DurationInputs ==
  {"", "30d", "7d", "24h", "2w", "90m", "1s", "0d", "+5d", "abc", "5", "d",
   "1.5h", "5x", " 5d", "5 d", "-1s", "-1d", "106751d", "106752d",
   "15250w", "15251w", "9223372036854775807s", "9223372036854775808s",
   "-9223372036854775808s", "2562047h", "2562048h"}

\* chronicle prune --force --older-than: Execute with the store calls run
\* with no other process in between
PruneOlderThan ==
  \E olderThan \in DurationInputs, now \in Ticks :
    \E p \in {parseDuration(olderThan)} :
     \E retention \in {IF olderThan = "" THEN defaultRetention ELSE p.d} :
      \E cutoff \in {cutoffOf(now, retention)} :
       \E counted \in {CountExpired(DB, cutoff, "none")} :
        \E res \in {IF olderThan # "" /\ p.err # "nil"
                    THEN Ret("invalid duration for --older-than", NoEvent,
                             DB, 0)
                    ELSE IF counted.n = 0 THEN Ret("nil", NoEvent, DB, 0)
                    ELSE PruneExpiredResult(DB, cutoff, "none")} :
          /\ SetDB(res.db)
          /\ cmd' = [NoCommand EXCEPT
                       !.name = "prune", !.Force = TRUE, !.pc = "returned",
                       !.cutoff = cutoff, !.count = counted.n,
                       !.pruned = res.n, !.err = res.err]
          /\ last' = [Call("PruneCommand", res, "", <<>>, cutoff)
                        EXCEPT !.out = <<[OlderThan |-> olderThan,
                                          now |-> now,
                                          retention |-> retention]>>]
          /\ UNCHANGED <<domainExclusions, regexExclusions, closed, running>>

AddEventDuration == AddEventCall(PruneInputs, Ticks, {"none"})

NextDuration ==
  \/ PruneOlderThan
  \/ AddEventDuration
  \/ DeleteEvent

SpecDuration == Init /\ [][NextDuration]_vars

\* an optional sign, at least one digit, and one of the unit letters
C39_Form(s) ==
  LET signed == Char(s, 1) \in {"+", "-"}
      first == IF signed THEN 2 ELSE 1
  IN  /\ Len(s) >= first + 1
      /\ Char(s, Len(s)) \in {"d", "h", "w", "m", "s"}
      /\ \A i \in first..(Len(s) - 1) : Char(s, i) \in Digits

\* the integer of s times its unit, computed in twice the width
C39_Product(s) ==
  LET signed == Char(s, 1) \in {"+", "-"}
      digits == SubSeq(s, IF signed THEN 2 ELSE 1, Len(s) - 1)
      n == parseDigits(digits, 1, Zero(2 * WordBytes)).w
      m == mulAll(n, UnitFactors[Char(s, Len(s))], 1)
  IN  IF Char(s, 1) = "-" THEN negate(m) ELSE m

\* d with its sign carried into twice the width
C39_Wide(d) ==
  d \o [i \in 1..WordBytes |-> IF isNegative(d) THEN 255 ELSE 0]

C39_ParseStep ==
  (last'.op = "PruneCommand" /\ last'.out[1].OlderThan # "") =>
    \E s \in {last'.out[1].OlderThan} :
      \E p \in {parseDuration(s)} :
        /\ ~C39_Form(s) => p.err # "nil"
        /\ p.err = "nil" =>
             /\ C39_Form(s)
             /\ ~isNegative(p.d)
             /\ C39_Wide(p.d) = C39_Product(s)

C39_CutoffStep ==
  (last'.op = "PruneCommand" /\ last'.err = "nil") =>
    /\ last'.olderThan <= last'.out[1].now
    /\ \A e \in events \ events' : e.at < last'.out[1].now

\* C39: parseDuration returns, for every input it accepts, which is an integer followed by d, h, w, m or s, a duration that is not negative and equals the integer times the unit without wrapping in 64 bits, and an error for every other input; the cutoff of the prune command, now minus the duration, is never later than now, and the command removes no event captured at or after its start.
C39_DurationExact == [][C39_ParseStep /\ C39_CutoffStep]_vars
====
